---- MODULE Spec2Model ----
(***************************************************************************)
(* A model of client/Windows/wf_myrtille.cpp: the bridge between the       *)
(* FreeRDP engine and the Myrtille gateway over three named pipes.         *)
(*                                                                         *)
(* The struct wf_myrtille is the record `myrtille`; every exported         *)
(* function (wf_myrtille_send_region, wf_myrtille_send_screen, ...) and    *)
(* every command handler of processInputsPipe is one action.  Pure         *)
(* operators compute what the C++ computes, on the same values.            *)
(***************************************************************************)
EXTENDS Integers, Sequences, FiniteSets, TLC

(***************************************************************************)
(* Program constants.                                                      *)
(***************************************************************************)
INT_MAX == 2147483647
INT_MIN == -INT_MAX - 1

IMAGE_COUNT_SAMPLING_RATE == 100

IMAGE_ENCODING_AUTO == 0
IMAGE_ENCODING_PNG == 1
IMAGE_ENCODING_JPEG == 2
IMAGE_ENCODING_WEBP == 3

IMAGE_FORMAT_CUR == 0
IMAGE_FORMAT_PNG == 1
IMAGE_FORMAT_JPEG == 2
IMAGE_FORMAT_WEBP == 3

IMAGE_QUALITY_LOW == 10
IMAGE_QUALITY_MEDIUM == 25
IMAGE_QUALITY_HIGH == 50
IMAGE_QUALITY_HIGHER == 75
IMAGE_QUALITY_HIGHEST == 100

\* GetSystemMetrics(SM_CXCURSOR), GetSystemMetrics(SM_CYCURSOR)
SM_CXCURSOR == 32
SM_CYCURSOR == 32

(***************************************************************************)
(* Bounds of the model.                                                    *)
(***************************************************************************)
\* settings->DesktopWidth, settings->DesktopHeight of the modelled session
DesktopWidth == 1
DesktopHeight == 1
\* largest encoded size a codec returns (0: the codec failed or wrote nothing)
MaxSize == 2
\* region events are explored while imageCount < MaxCount ...
MaxCount == 11
\* ... or while imageCount is within NearMax of INT_MAX
NearMax == 2
\* images are explored while imageIdx < MaxIdx (or within NearMax of INT_MAX)
MaxIdx == 2
\* the engine records the error codes 0..MaxError
MaxError == 1
MaxRequest == 3

NULL == "NULL"

(***************************************************************************)
(* The struct wf_myrtille as wf_myrtille_start leaves it.                  *)
(***************************************************************************)
Unset == [left |-> -1, top |-> -1, right |-> -1, bottom |-> -1]

wf_myrtille_start ==
    [ processInputs |-> TRUE,
      imageEncoding |-> IMAGE_ENCODING_AUTO,
      imageQuality |-> IMAGE_QUALITY_HIGH,
      imageQuantity |-> IMAGE_COUNT_SAMPLING_RATE,
      imageCount |-> 0,
      imageIdx |-> 0,
      imageBuffer |-> Unset,
      scaleDisplay |-> FALSE,
      clientWidth |-> DesktopWidth,
      clientHeight |-> DesktopHeight,
      aspectRatio |-> [n |-> DesktopWidth, d |-> DesktopHeight],
      screenshotEnabled |-> FALSE,
      clipboardText |-> <<>> ]

\* no region goes on to capture / no WriteFile was issued
NoRegion == Unset
NoWrite == [msg |-> [kind |-> "none"], ok |-> FALSE]

(***************************************************************************)
(* std::atomic<int>::operator++ : two's complement, no trap on overflow.   *)
(***************************************************************************)
AtomicIncrement(n) == IF n = INT_MAX THEN INT_MIN ELSE n + 1

\* a reset that makes room for the increment to land on 0 + 1 + 1
ResetToOne(n) == IF n = INT_MAX THEN 1 ELSE n

\* if (counter == INT_MAX) counter = 0;
ResetAtMax(n) == IF n = INT_MAX THEN 0 ELSE n

(***************************************************************************)
(* wf_myrtille_send_region: consistency check and ips regulator.           *)
(***************************************************************************)
Rect(l, t, r, b) == [left |-> l, top |-> t, right |-> r, bottom |-> b]

ConsistentRegion(region) ==
    ~ ( region.left < 0 \/ region.left > DesktopWidth
        \/ region.top < 0 \/ region.top > DesktopHeight
        \/ region.right < 0 \/ region.right > DesktopWidth
        \/ region.bottom < 0 \/ region.bottom > DesktopHeight
        \/ region.left > region.right \/ region.top > region.bottom )

RegulatorEngaged(imageQuantity) == imageQuantity \in {5, 10, 20, 25, 50}

\* an accumulator that keeps the latest region only
ConsolidateLatest(imageBuffer, region) == region

Consolidate(imageBuffer, region) ==
    [ top |-> IF imageBuffer.top = -1 \/ region.top < imageBuffer.top
              THEN region.top ELSE imageBuffer.top,
      left |-> IF imageBuffer.left = -1 \/ region.left < imageBuffer.left
               THEN region.left ELSE imageBuffer.left,
      bottom |-> IF imageBuffer.bottom = -1 \/ region.bottom > imageBuffer.bottom
                 THEN region.bottom ELSE imageBuffer.bottom,
      right |-> IF imageBuffer.right = -1 \/ region.right > imageBuffer.right
                THEN region.right ELSE imageBuffer.right ]

RegulatorDrops(imageCount, imageQuantity) ==
    imageCount % (100 \div imageQuantity) # 0

FlushedRegion(imageBuffer, region) ==
    IF imageBuffer.top # -1 /\ imageBuffer.left # -1
       /\ imageBuffer.bottom # -1 /\ imageBuffer.right # -1
    THEN imageBuffer ELSE region

\* a regulator that accumulates at every sampling rate
RegulatorAccumulatesAlways(m, region) ==
    LET count == AtomicIncrement(ResetAtMax(m.imageCount))
        m1 == [m EXCEPT !.imageCount = count,
                        !.imageBuffer = Consolidate(m.imageBuffer, region)]
    IN  IF RegulatorEngaged(m.imageQuantity) /\ RegulatorDrops(count, m.imageQuantity)
        THEN [m |-> m1, region |-> NoRegion]
        ELSE [m |-> m1, region |-> region]

\* the regulator as a whole: the struct after it, and the region that goes on
\* to capture (NoRegion when the event is dropped)
Regulator(m, region) ==
    LET count == AtomicIncrement(ResetAtMax(m.imageCount))
        m1 == [m EXCEPT !.imageCount = count]
    IN  IF RegulatorEngaged(m.imageQuantity)
        THEN LET buf == Consolidate(m.imageBuffer, region)
             IN  IF RegulatorDrops(count, m.imageQuantity)
                 THEN [m |-> [m1 EXCEPT !.imageBuffer = buf], region |-> NoRegion]
                 ELSE [m |-> [m1 EXCEPT !.imageBuffer = Unset],
                       region |-> FlushedRegion(buf, region)]
        ELSE [m |-> m1, region |-> region]

\* "scale region": the rectangle reported with the image
ScaleRegion(m, region) ==
    IF ~m.scaleDisplay
       \/ (m.clientWidth = DesktopWidth /\ m.clientHeight = DesktopHeight)
    THEN region
    ELSE Rect((region.left * m.clientWidth) \div DesktopWidth,
              (region.top * m.clientHeight) \div DesktopHeight,
              (region.right * m.clientWidth) \div DesktopWidth,
              (region.bottom * m.clientHeight) \div DesktopHeight)

(***************************************************************************)
(* processImage: quality, the codecs that run, the candidate selected.     *)
(* A codec result is the byte size of its stream; 0 is a failed or empty   *)
(* encoding.  A codec that is not run leaves its size at 0.                *)
(***************************************************************************)
Sizes == 0..MaxSize

CodecResults(imageEncoding) ==
    [ png : IF imageEncoding \in {IMAGE_ENCODING_PNG, IMAGE_ENCODING_AUTO}
            THEN Sizes ELSE {0},
      jpg : IF imageEncoding \in {IMAGE_ENCODING_JPEG, IMAGE_ENCODING_AUTO}
            THEN Sizes ELSE {0},
      webp : IF imageEncoding = IMAGE_ENCODING_WEBP THEN Sizes ELSE {0} ]

InitialQuality(m, fullscreen, adaptive) ==
    IF m.imageEncoding = IMAGE_ENCODING_PNG THEN IMAGE_QUALITY_HIGHEST
    ELSE IF fullscreen /\ adaptive THEN IMAGE_QUALITY_HIGHER
    ELSE m.imageQuality

\* a selection where a tie goes to JPEG
PngSelectedStrict(imageEncoding, pngSize, jpgSize) ==
    imageEncoding = IMAGE_ENCODING_PNG
    \/ (imageEncoding = IMAGE_ENCODING_AUTO /\ pngSize < jpgSize)

\* "use the lowest sized format"
PngSelected(imageEncoding, pngSize, jpgSize) ==
    imageEncoding = IMAGE_ENCODING_PNG
    \/ (imageEncoding = IMAGE_ENCODING_AUTO /\ pngSize <= jpgSize)

\* an encoding that reports the PNG candidate at the quality computed on entry
EncodeAtInitialQuality(m, fullscreen, adaptive, codec) ==
    LET quality == InitialQuality(m, fullscreen, adaptive)
    IN  IF m.imageEncoding \in
              {IMAGE_ENCODING_PNG, IMAGE_ENCODING_JPEG, IMAGE_ENCODING_AUTO}
        THEN IF PngSelected(m.imageEncoding, codec.png, codec.jpg)
             THEN [stream |-> "pngStream", format |-> IMAGE_FORMAT_PNG,
                   quality |-> quality, size |-> codec.png]
             ELSE [stream |-> "jpgStream", format |-> IMAGE_FORMAT_JPEG,
                   quality |-> quality, size |-> codec.jpg]
        ELSE IF m.imageEncoding = IMAGE_ENCODING_WEBP
        THEN [stream |-> "webpStream", format |-> IMAGE_FORMAT_WEBP,
              quality |-> quality, size |-> codec.webp]
        ELSE [stream |-> NULL, format |-> 0, quality |-> quality, size |-> 0]

Encode(m, fullscreen, adaptive, codec) ==
    LET quality == InitialQuality(m, fullscreen, adaptive)
    IN  IF m.imageEncoding \in
              {IMAGE_ENCODING_PNG, IMAGE_ENCODING_JPEG, IMAGE_ENCODING_AUTO}
        THEN IF PngSelected(m.imageEncoding, codec.png, codec.jpg)
             THEN [stream |-> "pngStream", format |-> IMAGE_FORMAT_PNG,
                   quality |-> IMAGE_QUALITY_HIGHEST, size |-> codec.png]
             ELSE [stream |-> "jpgStream", format |-> IMAGE_FORMAT_JPEG,
                   quality |-> quality, size |-> codec.jpg]
        ELSE IF m.imageEncoding = IMAGE_ENCODING_WEBP
        THEN [stream |-> "webpStream", format |-> IMAGE_FORMAT_WEBP,
              quality |-> quality, size |-> codec.webp]
        \* no codec runs: format is never assigned, and never read (stream is NULL)
        ELSE [stream |-> NULL, format |-> 0, quality |-> quality, size |-> 0]

(***************************************************************************)
(* The length header: a 32-bit integer, little endian.                     *)
(***************************************************************************)
int32ToBytes(value) ==
    << value % 256, (value \div 256) % 256,
       (value \div 65536) % 256, (value \div 16777216) % 256 >>

bytesToInt32(bytes) ==
    bytes[1] + bytes[2] * 256 + bytes[3] * 65536
    + (IF bytes[4] >= 128 THEN bytes[4] - 256 ELSE bytes[4]) * 16777216

(***************************************************************************)
(* sendImage: the 40-byte header, the write, the one-shot screenshot.      *)
(* A write on the updates pipe succeeds while the pipe is open.            *)
(***************************************************************************)
\* a header whose length field counts the whole buffer, itself included
ImageMessageCountsItself(idx, posX, posY, width, height, format, quality, size, fullscreen) ==
    [ kind |-> "image", totalLen |-> size + 40, tag |-> 0, idx |-> idx,
      posX |-> posX, posY |-> posY, width |-> width, height |-> height,
      format |-> format, quality |-> quality,
      fullscreen |-> IF fullscreen THEN 1 ELSE 0, size |-> size,
      header |-> int32ToBytes(size + 40) \o int32ToBytes(0) \o int32ToBytes(idx)
                 \o int32ToBytes(posX) \o int32ToBytes(posY)
                 \o int32ToBytes(width) \o int32ToBytes(height)
                 \o int32ToBytes(format) \o int32ToBytes(quality)
                 \o int32ToBytes(IF fullscreen THEN 1 ELSE 0),
      bytesToWrite |-> size + 40 ]

\* header is the byte[40] filled by ten int32ToBytes calls at offsets 0..36;
\* bytesToWrite is the length of the buffer handed to WriteFile
ImageMessage(idx, posX, posY, width, height, format, quality, size, fullscreen) ==
    [ kind |-> "image", totalLen |-> size + 36, tag |-> 0, idx |-> idx,
      posX |-> posX, posY |-> posY, width |-> width, height |-> height,
      format |-> format, quality |-> quality,
      fullscreen |-> IF fullscreen THEN 1 ELSE 0, size |-> size,
      header |-> int32ToBytes(size + 36) \o int32ToBytes(0) \o int32ToBytes(idx)
                 \o int32ToBytes(posX) \o int32ToBytes(posY)
                 \o int32ToBytes(width) \o int32ToBytes(height)
                 \o int32ToBytes(format) \o int32ToBytes(quality)
                 \o int32ToBytes(IF fullscreen THEN 1 ELSE 0),
      bytesToWrite |-> size + 40 ]

\* a sendImage that saves and disarms on any image, fullscreen or not
sendImageCapturesAny(m, pipe, idx, posX, posY, width, height, format, quality, size, fullscreen) ==
    LET ok == pipe = "open"
        m1 == IF ok THEN m ELSE [m EXCEPT !.processInputs = FALSE]
    IN  [ m |-> [m1 EXCEPT !.screenshotEnabled = FALSE],
          write |-> [ msg |-> ImageMessage(idx, posX, posY, width, height,
                                           format, quality, size, fullscreen),
                      ok |-> ok,
                      screenshot |-> m1.screenshotEnabled ] ]

\* screenshot: takeScreenshot is called on the bitmap of this image
sendImage(m, pipe, idx, posX, posY, width, height, format, quality, size, fullscreen) ==
    LET ok == pipe = "open"
        m1 == IF ok THEN m ELSE [m EXCEPT !.processInputs = FALSE]
        m2 == IF m1.screenshotEnabled /\ fullscreen
              THEN [m1 EXCEPT !.screenshotEnabled = FALSE] ELSE m1
    IN  [ m |-> m2,
          write |-> [ msg |-> ImageMessage(idx, posX, posY, width, height,
                                           format, quality, size, fullscreen),
                      ok |-> ok,
                      screenshot |-> m1.screenshotEnabled /\ fullscreen ] ]

\* a send that takes an index for a candidate it does not send
SendSelectedCountsAll(m, pipe, e, region, fullscreen) ==
    LET idx == AtomicIncrement(ResetAtMax(m.imageIdx))
        m1 == [m EXCEPT !.imageIdx = idx]
    IN  IF e.stream # NULL /\ e.size > 0
        THEN sendImage(m1, pipe, idx, region.left, region.top,
                       region.right - region.left, region.bottom - region.top,
                       e.format, e.quality, e.size, fullscreen)
        ELSE [m |-> m1, write |-> NoWrite]

\* processImage from "send the image" on, given the candidate e selected
SendSelected(m, pipe, e, region, fullscreen) ==
    LET m1 == [m EXCEPT !.imageIdx = ResetAtMax(m.imageIdx)]
    IN  IF e.stream # NULL /\ e.size > 0
        THEN LET idx == AtomicIncrement(m1.imageIdx)
             IN  sendImage([m1 EXCEPT !.imageIdx = idx], pipe, idx,
                           region.left, region.top,
                           region.right - region.left, region.bottom - region.top,
                           e.format, e.quality, e.size, fullscreen)
        ELSE [m |-> m1, write |-> NoWrite]

processImage(m, pipe, region, fullscreen, adaptive, codec) ==
    SendSelected(m, pipe, Encode(m, fullscreen, adaptive, codec), region, fullscreen)

(***************************************************************************)
(* Strings.  A std::string is the sequence of its bytes (0..255); Bytes    *)
(* gives the bytes of a text written as a sequence of characters.          *)
(***************************************************************************)
\* the printable ASCII characters, 0x20 to 0x7E (three of them by name)
Ascii ==
    << " ", "!", "quote", "#", "$", "%", "&", "'", "(", ")", "*", "+", ",", "-", ".", "/",
       "0", "1", "2", "3", "4", "5", "6", "7", "8", "9", ":", ";", "<", "=", ">", "?",
       "@", "A", "B", "C", "D", "E", "F", "G", "H", "I", "J", "K", "L", "M", "N", "O",
       "P", "Q", "R", "S", "T", "U", "V", "W", "X", "Y", "Z", "[", "backslash", "]", "^", "_",
       "backtick", "a", "b", "c", "d", "e", "f", "g", "h", "i", "j", "k", "l", "m", "n", "o",
       "p", "q", "r", "s", "t", "u", "v", "w", "x", "y", "z", "{", "|", "}", "~" >>

Ord(c) == 31 + CHOOSE i \in 1..Len(Ascii) : Ascii[i] = c

Bytes(text) == [i \in 1..Len(text) |-> Ord(text[i])]

\* a char*: NULL, or the characters up to the terminating 0
StrNull == [null |-> TRUE, chars |-> <<>>]
Str(chars) == [null |-> FALSE, chars |-> chars]

\* position of the first byte c of s from position i on, 0 when there is none
RECURSIVE Find(_, _, _)
Find(s, c, i) ==
    IF i > Len(s) THEN 0 ELSE IF s[i] = c THEN i ELSE Find(s, c, i + 1)

\* std::string::c_str() as the C functions read it: up to the first 0 byte
c_str(s) ==
    LET z == Find(s, 0, 1) IN IF z = 0 THEN s ELSE SubSeq(s, 1, z - 1)

strchr(s, c) == Find(s, Ord(c), 1)

\* split: std::getline up to each delimiter; no item after a final delimiter
RECURSIVE split(_, _)
split(s, delim) ==
    IF s = <<>> THEN <<>>
    ELSE LET k == Find(s, delim, 1)
         IN  IF k = 0 THEN <<s>>
             ELSE <<SubSeq(s, 1, k - 1)>> \o split(SubSeq(s, k + 1, Len(s)), delim)

\* a wide string literal L"...": one UTF-16 code unit per character
WideString(text) == [i \in 1..Len(text) |-> Ord(text[i])]

\* the bytes memcpy reads from a wchar_t array: each unit low byte first
WideBytes(units) ==
    [i \in 1..(2 * Len(units)) |->
        IF i % 2 = 1 THEN units[(i + 1) \div 2] % 256 ELSE units[i \div 2] \div 256]

(***************************************************************************)
(* std::stoi: leading white space, an optional sign, then digits up to the *)
(* first non-digit.  It throws when there is no digit (invalid_argument)   *)
(* or when the value does not fit an int (out_of_range).                   *)
(***************************************************************************)
DigitValue(c) == IF c \in 48..57 THEN c - 48 ELSE -1

IsDigit(c) == DigitValue(c) >= 0

RECURSIVE SkipBlanks(_, _)
SkipBlanks(s, i) ==
    IF i <= Len(s) /\ s[i] \in {9, 10, 11, 12, 13, 32}
    THEN SkipBlanks(s, i + 1) ELSE i

\* digits from position i on, accumulated with the sign; acc stays in int range
RECURSIVE ParseDigits(_, _, _, _)
ParseDigits(s, i, sign, acc) ==
    IF i > Len(s) \/ ~IsDigit(s[i]) THEN [ok |-> TRUE, value |-> acc]
    ELSE LET d == DigitValue(s[i])
         IN  IF sign = 1
             THEN IF acc > (INT_MAX - d) \div 10
                  THEN [ok |-> FALSE, value |-> INT_MAX]
                  ELSE ParseDigits(s, i + 1, sign, acc * 10 + d)
             ELSE IF -acc > (IF d = 0 THEN INT_MAX \div 10
                                      ELSE (INT_MAX - d + 1) \div 10)
                  THEN [ok |-> FALSE, value |-> INT_MIN]
                  ELSE ParseDigits(s, i + 1, sign, acc * 10 - d)

stoi(s) ==
    LET i == SkipBlanks(s, 1)
        signed == i <= Len(s) /\ s[i] \in {43, 45}
        sign == IF signed /\ s[i] = 45 THEN -1 ELSE 1
        j == IF signed THEN i + 1 ELSE i
    IN  IF j > Len(s) \/ ~IsDigit(s[j])
        THEN [ok |-> FALSE, value |-> 0]
        ELSE ParseDigits(s, j, sign, 0)

\* atoi: as stoi, but 0 when there is no digit and the nearest int on overflow
atoi(s) == stoi(c_str(s)).value

(***************************************************************************)
(* enum class COMMAND and commandMap, as wf_myrtille_start fills it.       *)
(***************************************************************************)
COMMAND_SEND_SERVER_ADDRESS == 0
COMMAND_SEND_VM_GUID == 1
COMMAND_SEND_USER_DOMAIN == 2
COMMAND_SEND_USER_NAME == 3
COMMAND_SEND_USER_PASSWORD == 4
COMMAND_SEND_START_PROGRAM == 5
COMMAND_CONNECT_CLIENT == 6
COMMAND_SEND_BROWSER_RESIZE == 7
COMMAND_SEND_BROWSER_PULSE == 8
COMMAND_SEND_KEY_UNICODE == 9
COMMAND_SEND_KEY_SCANCODE == 10
COMMAND_SEND_MOUSE_MOVE == 11
COMMAND_SEND_MOUSE_LEFT_BUTTON == 12
COMMAND_SEND_MOUSE_MIDDLE_BUTTON == 13
COMMAND_SEND_MOUSE_RIGHT_BUTTON == 14
COMMAND_SEND_MOUSE_WHEEL_UP == 15
COMMAND_SEND_MOUSE_WHEEL_DOWN == 16
COMMAND_SET_SCALE_DISPLAY == 17
COMMAND_SET_RECONNECT_SESSION == 18
COMMAND_SET_IMAGE_ENCODING == 19
COMMAND_SET_IMAGE_QUALITY == 20
COMMAND_SET_IMAGE_QUANTITY == 21
COMMAND_SET_AUDIO_FORMAT == 22
COMMAND_SET_AUDIO_BITRATE == 23
COMMAND_SET_SCREENSHOT_CONFIG == 24
COMMAND_START_TAKING_SCREENSHOTS == 25
COMMAND_STOP_TAKING_SCREENSHOTS == 26
COMMAND_TAKE_SCREENSHOT == 27
COMMAND_REQUEST_FULLSCREEN_UPDATE == 28
COMMAND_SEND_LOCAL_CLIPBOARD == 29
COMMAND_CLOSE_CLIENT == 30

commandMap ==
    (Bytes(<<"S", "R", "V">>) :> COMMAND_SEND_SERVER_ADDRESS)
    @@ (Bytes(<<"V", "M", "G">>) :> COMMAND_SEND_VM_GUID)
    @@ (Bytes(<<"D", "O", "M">>) :> COMMAND_SEND_USER_DOMAIN)
    @@ (Bytes(<<"U", "S", "R">>) :> COMMAND_SEND_USER_NAME)
    @@ (Bytes(<<"P", "W", "D">>) :> COMMAND_SEND_USER_PASSWORD)
    @@ (Bytes(<<"P", "R", "G">>) :> COMMAND_SEND_START_PROGRAM)
    @@ (Bytes(<<"C", "O", "N">>) :> COMMAND_CONNECT_CLIENT)
    @@ (Bytes(<<"R", "S", "Z">>) :> COMMAND_SEND_BROWSER_RESIZE)
    @@ (Bytes(<<"P", "L", "S">>) :> COMMAND_SEND_BROWSER_PULSE)
    @@ (Bytes(<<"K", "U", "C">>) :> COMMAND_SEND_KEY_UNICODE)
    @@ (Bytes(<<"K", "S", "C">>) :> COMMAND_SEND_KEY_SCANCODE)
    @@ (Bytes(<<"M", "M", "O">>) :> COMMAND_SEND_MOUSE_MOVE)
    @@ (Bytes(<<"M", "L", "B">>) :> COMMAND_SEND_MOUSE_LEFT_BUTTON)
    @@ (Bytes(<<"M", "M", "B">>) :> COMMAND_SEND_MOUSE_MIDDLE_BUTTON)
    @@ (Bytes(<<"M", "R", "B">>) :> COMMAND_SEND_MOUSE_RIGHT_BUTTON)
    @@ (Bytes(<<"M", "W", "U">>) :> COMMAND_SEND_MOUSE_WHEEL_UP)
    @@ (Bytes(<<"M", "W", "D">>) :> COMMAND_SEND_MOUSE_WHEEL_DOWN)
    @@ (Bytes(<<"S", "C", "A">>) :> COMMAND_SET_SCALE_DISPLAY)
    @@ (Bytes(<<"R", "C", "N">>) :> COMMAND_SET_RECONNECT_SESSION)
    @@ (Bytes(<<"E", "C", "D">>) :> COMMAND_SET_IMAGE_ENCODING)
    @@ (Bytes(<<"Q", "L", "T">>) :> COMMAND_SET_IMAGE_QUALITY)
    @@ (Bytes(<<"Q", "N", "T">>) :> COMMAND_SET_IMAGE_QUANTITY)
    @@ (Bytes(<<"A", "U", "D">>) :> COMMAND_SET_AUDIO_FORMAT)
    @@ (Bytes(<<"B", "I", "T">>) :> COMMAND_SET_AUDIO_BITRATE)
    @@ (Bytes(<<"S", "S", "C">>) :> COMMAND_SET_SCREENSHOT_CONFIG)
    @@ (Bytes(<<"S", "S", "1">>) :> COMMAND_START_TAKING_SCREENSHOTS)
    @@ (Bytes(<<"S", "S", "0">>) :> COMMAND_STOP_TAKING_SCREENSHOTS)
    @@ (Bytes(<<"S", "C", "N">>) :> COMMAND_TAKE_SCREENSHOT)
    @@ (Bytes(<<"F", "S", "U">>) :> COMMAND_REQUEST_FULLSCREEN_UPDATE)
    @@ (Bytes(<<"C", "L", "P">>) :> COMMAND_SEND_LOCAL_CLIPBOARD)
    @@ (Bytes(<<"C", "L", "O">>) :> COMMAND_CLOSE_CLIENT)

\* std::string::substr(pos, n): the reader takes substr(0, 3) and substr(3, ...)
substr(s, pos, n) ==
    SubSeq(s, pos + 1, IF pos + n > Len(s) THEN Len(s) ELSE pos + n)

\* commandMap[key]: std::map::operator[] inserts a value-initialized COMMAND,
\* which is 0, for a key the map does not hold, and returns it
MapLookup(map, key) == IF key \in DOMAIN map THEN map[key] ELSE 0

(***************************************************************************)
(* case COMMAND::SEND_SERVER_ADDRESS: "host", "host:port" or "[ipv6]:port" *)
(* on the settings; a calloc of a negative length fails.                   *)
(***************************************************************************)
ServerAddress(settings, commandArgs) ==
    LET s == c_str(commandArgs)
        p == strchr(s, "[")
    IN  IF p = 0
        THEN LET q == strchr(s, ":")
             IN  IF q # 0
                 THEN [settings EXCEPT
                          !.ServerPort = atoi(SubSeq(s, q + 1, Len(s))),
                          !.ServerHostname = Str(SubSeq(s, 1, q - 1))]
                 ELSE [settings EXCEPT !.ServerHostname = Str(s)]
        ELSE LET p2 == strchr(s, "]")
             IN  IF p2 = 0 \/ p2 < p
                 THEN [settings EXCEPT !.ServerHostname = StrNull]
                 ELSE LET host == Str(SubSeq(s, p + 1, p2 - 1))
                      IN  IF p2 < Len(s) /\ s[p2 + 1] = Ord(":")
                          THEN [settings EXCEPT
                                   !.ServerHostname = host,
                                   !.ServerPort = atoi(SubSeq(s, p2 + 2, Len(s)))]
                          ELSE [settings EXCEPT !.ServerHostname = host]

(***************************************************************************)
(* State.                                                                  *)
(*   myrtille     the struct wf_myrtille                                   *)
(*   settings     wfc->context.settings: the server address                *)
(*   updatesPipe  the updates pipe: "open", "broken" (the gateway closed   *)
(*                its end: WriteFile fails) or "closed" (CloseHandle)      *)
(*   inputsPipe   the inputs pipe: its state, as for the updates pipe, and *)
(*                the bytes the gateway wrote that are not read yet        *)
(*   process      "running", "exited" (exit()) or "crashed" (an exception  *)
(*                left a thread: std::terminate)                           *)
(*   reader       the locals of processInputsPipe between two iterations   *)
(*   thread       where each thread stands inside processImage or          *)
(*                wf_myrtille_send_cursor, when their steps interleave     *)
(*   dispatch     the payload the reader took last and the COMMAND it      *)
(*                switched on (-1: none)                                   *)
(*   call         the operation of the last step and its inputs            *)
(*   captured     the region the last step sent on to capture (NoRegion    *)
(*                when the regulator dropped it, or the step had none)     *)
(*   written      the WriteFile the last step issued on the updates pipe   *)
(*   engines      history: the wf_client_thread threads started so far     *)
(*   previous     history: the index carried by the last image written on  *)
(*                the updates pipe before the last step (0: none yet)      *)
(*   window       history: the valid region events received since the      *)
(*                previous forwarded one, the latest included: how many    *)
(*                (n), their bounding union (rect), whether the latest     *)
(*                was forwarded (fwd) and whether imageQuantity has kept   *)
(*                its value since the previous forwarded event (fixed);    *)
(*                n is counted only while fixed holds                      *)
(***************************************************************************)
VARIABLES myrtille, settings, updatesPipe, audioPipe, inputsPipe, process,
          LastError, exitCode, reader, thread, dispatch, call, captured, written,
          log, engines, previous, window

vars ==
    << myrtille, settings, updatesPipe, audioPipe, inputsPipe, process, LastError,
       exitCode, reader, thread, dispatch, call, captured, written, log, engines,
       previous, window >>

\* log holds the functions that have logged "WriteFile failed with error":
\* sendImage, sendMessage and sendAudio each do on a write that fails
Logger(kind) ==
    CASE kind = "image" -> "sendImage"
      [] kind = "text" -> "sendMessage"
      [] kind = "audio" -> "sendAudio"

Logged(write) ==
    IF write.msg.kind = "none" \/ write.ok THEN log
    ELSE log \union {Logger(write.msg.kind)}

NoCall ==
    [ op |-> "none", region |-> Unset, adaptive |-> FALSE, visible |-> FALSE,
      png |-> 0, jpg |-> 0, webp |-> 0 ]

Command(tag) == [NoCall EXCEPT !.op = tag]

ImageCall(op, region, adaptive, codec) ==
    [ op |-> op, region |-> region, adaptive |-> adaptive, visible |-> TRUE,
      png |-> codec.png, jpg |-> codec.jpg, webp |-> codec.webp ]

NoDispatch == [message |-> <<>>, command |-> -1]

\* the index carried by the last image written, the last step's included
Carried ==
    IF written.msg.kind = "image" /\ written.ok THEN written.msg.idx ELSE previous

\* the history variable, kept apart from the regulator's own arithmetic
Min(a, b) == IF a <= b THEN a ELSE b
Max(a, b) == IF a >= b THEN a ELSE b

BoundingUnion(a, b) ==
    IF a = Unset THEN b
    ELSE Rect(Min(a.left, b.left), Min(a.top, b.top),
              Max(a.right, b.right), Max(a.bottom, b.bottom))

FreshWindow == [fixed |-> TRUE, fwd |-> FALSE, n |-> 0, rect |-> Unset]
BrokenWindow == [fixed |-> FALSE, fwd |-> FALSE, n |-> 0, rect |-> Unset]

Observe(w, region, forwarded) ==
    LET base == IF w.fwd THEN FreshWindow ELSE w
    IN  IF base.fixed
        THEN [fixed |-> TRUE, fwd |-> forwarded, n |-> base.n + 1,
              rect |-> BoundingUnion(base.rect, region)]
        ELSE [BrokenWindow EXCEPT !.fwd = forwarded,
                                  !.rect = BoundingUnion(base.rect, region)]

(***************************************************************************)
(* The display thread: region, fullscreen and cursor updates.  Each takes  *)
(* what the platform hands it: the damaged region, the codecs' results.    *)
(***************************************************************************)
wf_myrtille_send_region(region, codec) ==
    /\ IF ~ConsistentRegion(region)
       THEN UNCHANGED <<myrtille, call, captured, written, log,
                       engines, previous, window>>
       ELSE LET r == Regulator(myrtille, region)
                p == IF r.region = NoRegion
                     THEN [m |-> r.m, write |-> NoWrite]
                     ELSE processImage(r.m, updatesPipe, ScaleRegion(r.m, r.region),
                                       FALSE, FALSE, codec)
            IN  /\ captured' = r.region
                /\ previous' = Carried
                /\ window' = Observe(window, region, r.region # NoRegion)
                /\ myrtille' = p.m
                /\ written' = p.write
                /\ log' = Logged(p.write)
                /\ UNCHANGED engines
                /\ call' = IF r.region = NoRegion
                           THEN [Command("region") EXCEPT !.region = region]
                           ELSE ImageCall("region", region, FALSE, codec)
    /\ UNCHANGED <<settings, updatesPipe, audioPipe, inputsPipe, process,
                   LastError, exitCode, reader, thread, dispatch>>

ScreenRegion(m) ==
    Rect(0, 0, IF m.scaleDisplay THEN m.clientWidth ELSE DesktopWidth,
               IF m.scaleDisplay THEN m.clientHeight ELSE DesktopHeight)

\* wf_myrtille_send_screen, called on the struct m
SendScreen(m, adaptive, codec, op) ==
    LET p == processImage(m, updatesPipe, ScreenRegion(m), TRUE, adaptive, codec)
    IN  /\ myrtille' = p.m
        /\ written' = p.write
        /\ log' = Logged(p.write)
        /\ UNCHANGED engines
        /\ call' = ImageCall(op, ScreenRegion(m), adaptive, codec)
        /\ captured' = NoRegion
        /\ previous' = Carried
        /\ UNCHANGED <<settings, updatesPipe, audioPipe, process, LastError,
                       exitCode, window>>

wf_myrtille_send_screen(adaptive, codec) ==
    /\ SendScreen(myrtille, adaptive, codec, "screen")
    /\ UNCHANGED <<inputsPipe, reader, thread, dispatch>>

\* what the cursor's PNG encoding returned, as a candidate of processImage
CursorImage(pngSize) ==
    [ stream |-> "pngStream", format |-> IMAGE_FORMAT_CUR,
      quality |-> IMAGE_QUALITY_HIGHEST, size |-> pngSize ]

CursorRegion == Rect(0, 0, SM_CXCURSOR, SM_CYCURSOR)

\* a cursor that counts as a region event
SendCursorCounted(m, pipe, visible, pngSize) ==
    IF ~visible THEN [m |-> m, write |-> NoWrite]
    ELSE SendSelected([m EXCEPT !.imageCount = AtomicIncrement(ResetAtMax(m.imageCount))],
                      pipe, CursorImage(pngSize), CursorRegion, FALSE)

\* the cursor is sent when it has a transparent mask and is not empty (visible)
SendCursor(m, pipe, visible, pngSize) ==
    IF ~visible THEN [m |-> m, write |-> NoWrite]
    ELSE SendSelected(m, pipe, CursorImage(pngSize), CursorRegion, FALSE)

wf_myrtille_send_cursor(visible, pngSize) ==
    LET p == SendCursor(myrtille, updatesPipe, visible, pngSize)
    IN  /\ myrtille' = p.m
        /\ written' = p.write
        /\ log' = Logged(p.write)
        /\ UNCHANGED engines
        /\ call' = [Command("cursor") EXCEPT !.visible = visible, !.png = pngSize]
        /\ captured' = NoRegion
        /\ previous' = Carried
        /\ UNCHANGED <<settings, updatesPipe, audioPipe, inputsPipe, process,
                       LastError, exitCode, reader, thread, dispatch, window>>

(***************************************************************************)
(* The command handlers of processInputsPipe, each on its argument string  *)
(* commandArgs.  They say nothing of the reader's locals.                  *)
(***************************************************************************)
\* an exception leaves processInputsPipe: nothing catches it
Throw(tag) ==
    /\ process' = "crashed"
    /\ call' = Command(tag)
    /\ written' = NoWrite
    /\ UNCHANGED log
    /\ UNCHANGED engines
    /\ captured' = NoRegion
    /\ previous' = Carried
    /\ UNCHANGED <<myrtille, settings, updatesPipe, audioPipe, LastError, exitCode,
                   window>>

\* a handler that only assigns fields of the struct
Assign(tag, m) ==
    /\ myrtille' = m
    /\ call' = Command(tag)
    /\ written' = NoWrite
    /\ UNCHANGED log
    /\ UNCHANGED engines
    /\ captured' = NoRegion
    /\ previous' = Carried
    /\ UNCHANGED <<settings, updatesPipe, audioPipe, process, LastError,
                   exitCode>>

(***************************************************************************)
(* sendMessage and the text messages of the display side: the clipboard    *)
(* of the server and the print job notice.  A std::wstring is the sequence *)
(* of its UTF-16 code units (sizeof(wchar_t) is 2 on Windows).             *)
(***************************************************************************)
CLIPBOARD_MAX_LENGTH_SEND == 1048576

\* a message whose length header counts one byte per character
TextMessageOneBytePerChar(msg) ==
    [ kind |-> "text", text |-> msg, size |-> Len(msg),
      header |-> int32ToBytes(Len(msg)), data |-> WideBytes(msg),
      bytesToWrite |-> Len(msg) + 4 ]

\* header is the byte[4] with the size; data the size bytes copied after it
TextMessage(msg) ==
    [ kind |-> "text", text |-> msg, size |-> Len(msg) * 2,
      header |-> int32ToBytes(Len(msg) * 2), data |-> WideBytes(msg),
      bytesToWrite |-> Len(msg) * 2 + 4 ]

sendMessage(m, pipe, msg) ==
    IF Len(msg) = 0 THEN [m |-> m, write |-> NoWrite]
    ELSE LET ok == pipe = "open"
         IN  [ m |-> IF ok THEN m ELSE [m EXCEPT !.processInputs = FALSE],
               write |-> [msg |-> TextMessage(msg), ok |-> ok] ]

\* what follows the clipboard data in memory, as far as a read past its end
\* may find it: code units, or no mapped page at all
OverRead == { <<>>, <<120>>, <<8364, 0, 120>> }

\* the std::wstring built from data, size / 2 code units with the terminator.
\* With size < 2 the unsigned clipboardLength wraps, and the constructor
\* reads CLIPBOARD_MAX_LENGTH_SEND units from a buffer that has none.
ClipboardText(data) ==
    IF Len(data) = 0
    THEN { [fault |-> FALSE, units |-> units] : units \in OverRead }
         \union { [fault |-> TRUE, units |-> <<>>] }
    ELSE { [ fault |-> FALSE,
             units |-> SubSeq(data, 1, Min(Len(data) - 1,
                                           CLIPBOARD_MAX_LENGTH_SEND)) ] }

ClipboardTruncated(data) ==
    Len(data) = 0 \/ Len(data) - 1 > CLIPBOARD_MAX_LENGTH_SEND

DisplaySends(op, p) ==
    /\ myrtille' = p.m
    /\ written' = p.write
    /\ log' = Logged(p.write)
    /\ UNCHANGED engines
    /\ call' = Command(op)
    /\ captured' = NoRegion
    /\ previous' = Carried
    /\ UNCHANGED <<settings, updatesPipe, audioPipe, inputsPipe, process,
                   LastError, exitCode, reader, thread, dispatch, window>>

wf_myrtille_send_server_clipboard(data) ==
    \E clipboardText \in ClipboardText(data) :
        IF clipboardText.fault
        THEN /\ Throw("clipboard")
             /\ UNCHANGED <<inputsPipe, reader, thread, dispatch>>
        ELSE DisplaySends("clipboard",
                 sendMessage(myrtille, updatesPipe,
                     WideString(<<"c", "l", "i", "p", "b", "o", "a", "r", "d", "|">>)
                     \o c_str(clipboardText.units)
                     \o IF ClipboardTruncated(data)
                        THEN WideString(<<"-", "-", "-", " ", "T", "R", "U", "N", "C",
                                          "A", "T", "E", "D", " ", "-", "-", "-">>)
                        ELSE <<>>))

wf_myrtille_send_printjob(printJobName) ==
    DisplaySends("printjob",
        sendMessage(myrtille, updatesPipe,
            WideString(<<"p", "r", "i", "n", "t", "j", "o", "b", "|">>)
            \o printJobName \o WideString(<<".", "p", "d", "f">>)))

(***************************************************************************)
(* sendAudio: the raw data in one WriteFile on the audio pipe.  A write    *)
(* succeeds while its pipe is open.  WriteFile also fails for a cause that *)
(* passes (the pipe is busy, the system is short of buffers): the pipe is  *)
(* then "busy" until the cause is gone.  The handles are opened in         *)
(* blocking mode, where a write that succeeds has written every byte.      *)
(***************************************************************************)
AudioMessage(size) == [kind |-> "audio", size |-> size, bytesToWrite |-> size]

sendAudio(m, pipe, size) ==
    LET ok == pipe = "open"
    IN  [ m |-> IF ok THEN m ELSE [m EXCEPT !.processInputs = FALSE],
          write |-> [msg |-> AudioMessage(size), ok |-> ok] ]

wf_myrtille_send_audio(size) ==
    DisplaySends("audio", sendAudio(myrtille, audioPipe, size))

UpdatesFaultBegins ==
    /\ process = "running"
    /\ updatesPipe = "open"
    /\ updatesPipe' = "busy"
    /\ call' = Command("system")
    /\ written' = NoWrite
    /\ UNCHANGED log
    /\ UNCHANGED engines
    /\ captured' = NoRegion
    /\ previous' = Carried
    /\ UNCHANGED <<myrtille, settings, audioPipe, inputsPipe, process, LastError,
                   exitCode, reader, thread, dispatch, window>>

UpdatesFaultEnds ==
    /\ process = "running"
    /\ updatesPipe = "busy"
    /\ updatesPipe' = "open"
    /\ call' = Command("system")
    /\ written' = NoWrite
    /\ UNCHANGED log
    /\ UNCHANGED engines
    /\ captured' = NoRegion
    /\ previous' = Carried
    /\ UNCHANGED <<myrtille, settings, audioPipe, inputsPipe, process, LastError,
                   exitCode, reader, thread, dispatch, window>>

AudioFaultBegins ==
    /\ process = "running"
    /\ audioPipe = "open"
    /\ audioPipe' = "busy"
    /\ call' = Command("system")
    /\ written' = NoWrite
    /\ UNCHANGED log
    /\ UNCHANGED engines
    /\ captured' = NoRegion
    /\ previous' = Carried
    /\ UNCHANGED <<myrtille, settings, updatesPipe, inputsPipe, process, LastError,
                   exitCode, reader, thread, dispatch, window>>

AudioFaultEnds ==
    /\ process = "running"
    /\ audioPipe = "busy"
    /\ audioPipe' = "open"
    /\ call' = Command("system")
    /\ written' = NoWrite
    /\ UNCHANGED log
    /\ UNCHANGED engines
    /\ captured' = NoRegion
    /\ previous' = Carried
    /\ UNCHANGED <<myrtille, settings, updatesPipe, inputsPipe, process, LastError,
                   exitCode, reader, thread, dispatch, window>>

SEND_SERVER_ADDRESS(commandArgs) ==
    /\ settings' = ServerAddress(settings, commandArgs)
    /\ call' = Command("SRV")
    /\ written' = NoWrite
    /\ UNCHANGED log
    /\ UNCHANGED engines
    /\ captured' = NoRegion
    /\ previous' = Carried
    /\ UNCHANGED <<myrtille, updatesPipe, audioPipe, process, LastError,
                   exitCode, window>>

\* a change of encoding that leaves the quality as it is
SET_IMAGE_ENCODING_only(commandArgs) ==
    LET v == stoi(commandArgs)
    IN  IF ~v.ok THEN Throw("ECD")
        ELSE /\ Assign("ECD", [myrtille EXCEPT !.imageEncoding = v.value])
             /\ UNCHANGED window

SET_IMAGE_ENCODING(commandArgs) ==
    LET v == stoi(commandArgs)
    IN  IF ~v.ok THEN Throw("ECD")
        ELSE /\ Assign("ECD", [myrtille EXCEPT !.imageEncoding = v.value,
                                               !.imageQuality = IMAGE_QUALITY_HIGH])
             /\ UNCHANGED window

SET_IMAGE_QUALITY(commandArgs) ==
    LET v == stoi(commandArgs)
    IN  IF ~v.ok THEN Throw("QLT")
        ELSE /\ Assign("QLT", [myrtille EXCEPT !.imageQuality = v.value])
             /\ UNCHANGED window

SET_IMAGE_QUANTITY(commandArgs) ==
    LET v == stoi(commandArgs)
    IN  IF ~v.ok THEN Throw("QNT")
        ELSE /\ Assign("QNT", [myrtille EXCEPT !.imageQuantity = v.value])
             /\ window' = IF v.value = myrtille.imageQuantity THEN window
                          ELSE IF window.fwd THEN BrokenWindow
                          ELSE [BrokenWindow EXCEPT !.rect = window.rect]

TAKE_SCREENSHOT(codec) ==
    SendScreen([myrtille EXCEPT !.screenshotEnabled = TRUE], TRUE, codec, "SCN")

REQUEST_FULLSCREEN_UPDATE(commandArgs, codec) ==
    SendScreen(myrtille, commandArgs = Bytes(<<"a", "d", "a", "p", "t", "i", "v", "e">>),
               codec, "FSU")

(***************************************************************************)
(* processResizeDisplay.  A float is kept as the fraction it is the        *)
(* quotient of: aspectRatio is DesktopWidth / DesktopHeight, both positive,*)
(* and the ratio requested is w / h, where h may be 0 (an infinity, or a   *)
(* NaN when w is 0 too, which compares false with everything).  For the    *)
(* sizes explored the single-precision results are those of the fractions. *)
(***************************************************************************)
FloatEqual(a, r) == r.d # 0 /\ a.n * r.d = r.n * a.d

FloatLess(a, r) ==
    IF r.d > 0 THEN a.n * r.d < r.n * a.d
    ELSE IF r.d < 0 THEN a.n * r.d > r.n * a.d
    ELSE r.n > 0

\* the conversion of the float p / q to int, q positive: toward zero
FloatToInt(p, q) == IF p >= 0 THEN p \div q ELSE -((-p) \div q)

\* a resize that always keeps the width requested
processResizeDisplayKeepsWidth(m, keepAspectRatio, resolution) ==
    LET separatorIdx == Find(resolution, Ord("x"), 1)
        clientWidth == stoi(substr(resolution, 0, separatorIdx - 1))
        clientHeight == stoi(substr(resolution, separatorIdx,
                                    Len(resolution) - separatorIdx))
        aspectRatio == [n |-> clientWidth.value, d |-> clientHeight.value]
    IN  IF separatorIdx = 0 THEN [ok |-> TRUE, m |-> m]
        ELSE IF ~clientWidth.ok \/ ~clientHeight.ok THEN [ok |-> FALSE, m |-> m]
        ELSE IF keepAspectRatio /\ ~FloatEqual(m.aspectRatio, aspectRatio)
        THEN [ ok |-> TRUE,
               m |-> [m EXCEPT
                        !.clientWidth = clientWidth.value,
                        !.clientHeight = FloatToInt(clientWidth.value * m.aspectRatio.d,
                                                    m.aspectRatio.n)] ]
        ELSE [ ok |-> TRUE,
               m |-> [m EXCEPT !.clientWidth = clientWidth.value,
                               !.clientHeight = clientHeight.value] ]

\* ok is false when std::stoi throws
processResizeDisplay(m, keepAspectRatio, resolution) ==
    LET separatorIdx == Find(resolution, Ord("x"), 1)
        clientWidth == stoi(substr(resolution, 0, separatorIdx - 1))
        clientHeight == stoi(substr(resolution, separatorIdx,
                                    Len(resolution) - separatorIdx))
        aspectRatio == [n |-> clientWidth.value, d |-> clientHeight.value]
    IN  IF separatorIdx = 0 THEN [ok |-> TRUE, m |-> m]
        ELSE IF ~clientWidth.ok \/ ~clientHeight.ok THEN [ok |-> FALSE, m |-> m]
        ELSE IF keepAspectRatio /\ ~FloatEqual(m.aspectRatio, aspectRatio)
        THEN IF FloatLess(m.aspectRatio, aspectRatio)
             THEN [ ok |-> TRUE,
                    m |-> [m EXCEPT
                             !.clientWidth = FloatToInt(clientHeight.value * m.aspectRatio.n,
                                                        m.aspectRatio.d),
                             !.clientHeight = clientHeight.value] ]
             ELSE [ ok |-> TRUE,
                    m |-> [m EXCEPT
                             !.clientWidth = clientWidth.value,
                             !.clientHeight = FloatToInt(clientWidth.value * m.aspectRatio.d,
                                                         m.aspectRatio.n)] ]
        ELSE [ ok |-> TRUE,
               m |-> [m EXCEPT !.clientWidth = clientWidth.value,
                               !.clientHeight = clientHeight.value] ]

\* a handler of the reader that ends on a message to the gateway, or on an
\* exception thrown after the struct became m
HandlerSends(tag, m, thrown, msg) ==
    LET p == IF thrown THEN [m |-> m, write |-> NoWrite]
             ELSE sendMessage(m, updatesPipe, msg)
    IN  /\ myrtille' = p.m
        /\ written' = p.write
        /\ log' = Logged(p.write)
        /\ UNCHANGED engines
        /\ process' = IF thrown THEN "crashed" ELSE process
        /\ call' = Command(tag)
        /\ captured' = NoRegion
        /\ previous' = Carried
        /\ UNCHANGED <<settings, updatesPipe, audioPipe, LastError, exitCode, window>>

\* a browser resize that is served with the scaling off as well
SEND_BROWSER_RESIZE_unscaled(commandArgs) ==
    LET args == split(commandArgs, Ord("|"))
        r == IF Len(args) = 2
             THEN processResizeDisplay(myrtille, args[1] = Bytes(<<"1">>), args[2])
             ELSE [ok |-> TRUE, m |-> myrtille]
    IN  HandlerSends("RSZ", r.m, ~r.ok, WideString(<<"r", "e", "l", "o", "a", "d">>))

SEND_BROWSER_RESIZE(commandArgs) ==
    LET args == split(commandArgs, Ord("|"))
        r == IF Len(args) = 2
             THEN processResizeDisplay(myrtille, args[1] = Bytes(<<"1">>), args[2])
             ELSE [ok |-> TRUE, m |-> myrtille]
    IN  IF myrtille.scaleDisplay
        THEN HandlerSends("RSZ", r.m, ~r.ok, WideString(<<"r", "e", "l", "o", "a", "d">>))
        ELSE HandlerSends("RSZ", myrtille, FALSE, <<>>)

SET_SCALE_DISPLAY(commandArgs) ==
    LET m == [myrtille EXCEPT !.scaleDisplay = commandArgs # Bytes(<<"0">>)]
        args == split(commandArgs, Ord("|"))
        r == IF m.scaleDisplay /\ Len(args) = 2
             THEN processResizeDisplay(m, args[1] = Bytes(<<"1">>), args[2])
             ELSE [ok |-> TRUE, m |-> m]
    IN  HandlerSends("SCA", r.m, ~r.ok, WideString(<<"r", "e", "l", "o", "a", "d">>))

\* ConvertToUnicode(CP_UTF8, ...): the UTF-16 code units of a UTF-8 text; a
\* byte that starts no sequence becomes U+FFFD
RECURSIVE ConvertToUnicode(_)
ConvertToUnicode(s) ==
    IF s = <<>> THEN <<>>
    ELSE IF s[1] \in 192..223 /\ Len(s) >= 2
    THEN <<(s[1] - 192) * 64 + (s[2] - 128)>>
         \o ConvertToUnicode(SubSeq(s, 3, Len(s)))
    ELSE IF s[1] \in 224..239 /\ Len(s) >= 3
    THEN <<(s[1] - 224) * 4096 + (s[2] - 128) * 64 + (s[3] - 128)>>
         \o ConvertToUnicode(SubSeq(s, 4, Len(s)))
    ELSE IF s[1] \in 240..247 /\ Len(s) >= 4
    THEN LET v == (s[1] - 240) * 262144 + (s[2] - 128) * 4096
                  + (s[3] - 128) * 64 + (s[4] - 128) - 65536
         IN  <<55296 + (v \div 1024), 56320 + (v % 1024)>>
             \o ConvertToUnicode(SubSeq(s, 5, Len(s)))
    ELSE <<IF s[1] < 128 THEN s[1] ELSE 65533>> \o ConvertToUnicode(Tail(s))

\* the text is converted from commandArgs.c_str(), with length -1: the bytes
\* up to the first 0
SEND_LOCAL_CLIPBOARD(commandArgs) ==
    /\ Assign("CLP", [myrtille EXCEPT
                         !.clipboardText = ConvertToUnicode(c_str(commandArgs))])
    /\ UNCHANGED window

\* what the engine gets when it asks for the clipboard of the client
wf_myrtille_read_client_clipboard(m) ==
    [text |-> m.clipboardText, size |-> (Len(m.clipboardText) + 1) * 2]

\* reloading the page is optional: the second argument asks for it
SET_RECONNECT_SESSION(commandArgs) ==
    LET args == split(commandArgs, Ord("|"))
        p == IF Len(args) = 2 /\ args[2] = Bytes(<<"1">>)
             THEN sendMessage(myrtille, updatesPipe,
                              WideString(<<"r", "e", "l", "o", "a", "d">>))
             ELSE [m |-> myrtille, write |-> NoWrite]
    IN  /\ myrtille' = p.m
        /\ written' = p.write
        /\ log' = Logged(p.write)
        /\ UNCHANGED engines
        /\ call' = Command("RCN")
        /\ captured' = NoRegion
        /\ previous' = Carried
        /\ UNCHANGED <<settings, updatesPipe, audioPipe, process, LastError,
                       exitCode, window>>

\* CreateThread starts wf_client_thread on every CONNECT_CLIENT: nothing
\* records an earlier start; a failed CreateThread is only logged
CONNECT_CLIENT ==
    \E created \in BOOLEAN :
       /\ engines' = IF created THEN engines + 1 ELSE engines
       /\ call' = Command("CON")
       /\ written' = NoWrite
       /\ UNCHANGED log
       /\ captured' = NoRegion
       /\ previous' = Carried
       /\ UNCHANGED <<myrtille, settings, updatesPipe, audioPipe, process,
                      LastError, exitCode, window>>

\* a close command that leaves the loop running
CLOSE_CLIENT_ignored ==
    /\ Assign("CLO", myrtille)
    /\ UNCHANGED window

CLOSE_CLIENT ==
    /\ Assign("CLO", [myrtille EXCEPT !.processInputs = FALSE])
    /\ UNCHANGED window

(***************************************************************************)
(* processInputsPipe, one iteration of its loop per step: a ReadFile of 4  *)
(* bytes for a length header or of bytesToRead bytes for a payload, which  *)
(* blocks while the pipe is empty and fails once the gateway closed it.    *)
(***************************************************************************)
\* the 4 bytes of the buffer after a header read: those read, then what
\* new byte[4] held, which is not initialized
HeaderBuffers(read) ==
    IF Len(read) >= 4 THEN {read}
    ELSE { read \o rest : rest \in [1..(4 - Len(read)) -> {0, 255}] }

\* the switch on command, for the handlers modelled; codecs are the results
\* the encoders may return to a handler that sends the screen
Dispatch(command, commandArgs, codecs) ==
    CASE command = COMMAND_SEND_SERVER_ADDRESS -> SEND_SERVER_ADDRESS(commandArgs)
      [] command = COMMAND_SET_IMAGE_ENCODING -> SET_IMAGE_ENCODING(commandArgs)
      [] command = COMMAND_SET_IMAGE_QUALITY -> SET_IMAGE_QUALITY(commandArgs)
      [] command = COMMAND_SET_IMAGE_QUANTITY -> SET_IMAGE_QUANTITY(commandArgs)
      [] command = COMMAND_TAKE_SCREENSHOT ->
            \E codec \in codecs : TAKE_SCREENSHOT(codec)
      [] command = COMMAND_REQUEST_FULLSCREEN_UPDATE ->
            \E codec \in codecs : REQUEST_FULLSCREEN_UPDATE(commandArgs, codec)
      [] command = COMMAND_SET_RECONNECT_SESSION ->
            SET_RECONNECT_SESSION(commandArgs)
      [] command = COMMAND_SEND_LOCAL_CLIPBOARD -> SEND_LOCAL_CLIPBOARD(commandArgs)
      [] command = COMMAND_SEND_BROWSER_RESIZE -> SEND_BROWSER_RESIZE(commandArgs)
      [] command = COMMAND_SET_SCALE_DISPLAY -> SET_SCALE_DISPLAY(commandArgs)
      [] command = COMMAND_CONNECT_CLIENT -> CONNECT_CLIENT
      [] command = COMMAND_CLOSE_CLIENT -> CLOSE_CLIENT
      [] OTHER -> FALSE

\* the payload read: the tag is looked up, the rest is the argument string;
\* substr(3, ...) throws out_of_range on a message shorter than 3 bytes
Payload(message, codecs) ==
    LET command == MapLookup(commandMap, substr(message, 0, 3))
    IN  IF Len(message) < 3
        THEN /\ Throw("substr")
             /\ dispatch' = [message |-> message, command |-> -1]
        ELSE /\ Dispatch(command, substr(message, 3, Len(message) - 3), codecs)
             /\ dispatch' = [message |-> message, command |-> command]

Idle ==
    /\ call' = Command("read")
    /\ written' = NoWrite
    /\ UNCHANGED log
    /\ UNCHANGED engines
    /\ captured' = NoRegion
    /\ previous' = Carried
    /\ UNCHANGED <<settings, updatesPipe, audioPipe, process, LastError,
                   exitCode, window>>

processInputsPipe(codecs) ==
    LET bytesToRead == IF reader.sizeHeader THEN 4 ELSE reader.bytesToRead
        bytesRead == Min(bytesToRead, Len(inputsPipe.data))
        read == SubSeq(inputsPipe.data, 1, bytesRead)
        rest == SubSeq(inputsPipe.data, bytesRead + 1, Len(inputsPipe.data))
    IN  /\ process = "running"
        /\ myrtille.processInputs
        /\ inputsPipe.data # <<>> \/ inputsPipe.state = "broken"
        /\ UNCHANGED thread
        /\ IF bytesToRead < 0
           THEN \* new byte[bytesToRead] of a negative DWORD: std::bad_alloc
                /\ Throw("new")
                /\ UNCHANGED <<inputsPipe, reader, dispatch>>
           ELSE IF inputsPipe.data = <<>> /\ inputsPipe.state = "broken"
           THEN \* ReadFile failed
                /\ myrtille' = [myrtille EXCEPT !.processInputs = FALSE]
                /\ Idle
                /\ UNCHANGED <<inputsPipe, reader, dispatch>>
           ELSE /\ inputsPipe' = [inputsPipe EXCEPT !.data = rest]
                /\ IF bytesRead = 0
                   THEN /\ Idle
                        /\ UNCHANGED <<myrtille, dispatch>>
                        /\ reader' = [reader EXCEPT !.bytesToRead = bytesToRead]
                   ELSE IF reader.sizeHeader
                   THEN /\ \E buffer \in HeaderBuffers(read) :
                             reader' = [sizeHeader |-> FALSE,
                                        bytesToRead |-> bytesToInt32(buffer)]
                        /\ Idle
                        /\ UNCHANGED <<myrtille, dispatch>>
                   ELSE /\ Payload(read, codecs)
                        /\ reader' = [sizeHeader |-> TRUE, bytesToRead |-> bytesToRead]

\* the gateway writes a message: its length, then its bytes
GatewayWrites(message) ==
    /\ process = "running"
    /\ inputsPipe.state = "open"
    /\ inputsPipe.data = <<>>
    /\ inputsPipe' = [inputsPipe EXCEPT
                         !.data = int32ToBytes(Len(message)) \o message]
    /\ call' = Command("gateway")
    /\ written' = NoWrite
    /\ UNCHANGED log
    /\ UNCHANGED engines
    /\ captured' = NoRegion
    /\ previous' = Carried
    /\ UNCHANGED <<myrtille, settings, updatesPipe, audioPipe, process,
                   LastError, exitCode, reader, thread, dispatch, window>>

\* the gateway writes some bytes, framed or not, once the reader has read
\* those it wrote before
GatewayWritesBytes(chunk) ==
    /\ process = "running"
    /\ inputsPipe.state = "open"
    /\ inputsPipe.data = <<>>
    /\ inputsPipe' = [inputsPipe EXCEPT !.data = chunk]
    /\ call' = Command("gateway")
    /\ written' = NoWrite
    /\ UNCHANGED log
    /\ UNCHANGED engines
    /\ captured' = NoRegion
    /\ previous' = Carried
    /\ UNCHANGED <<myrtille, settings, updatesPipe, audioPipe, process, LastError,
                   exitCode, reader, thread, dispatch, window>>

GatewayClosesInputs ==
    /\ process = "running"
    /\ inputsPipe.state = "open"
    /\ inputsPipe' = [inputsPipe EXCEPT !.state = "broken"]
    /\ call' = Command("gateway")
    /\ written' = NoWrite
    /\ UNCHANGED log
    /\ UNCHANGED engines
    /\ captured' = NoRegion
    /\ previous' = Carried
    /\ UNCHANGED <<myrtille, settings, updatesPipe, audioPipe, process,
                   LastError, exitCode, reader, thread, dispatch, window>>

GatewayClosesUpdates ==
    /\ process = "running"
    /\ updatesPipe = "open"
    /\ updatesPipe' = "broken"
    /\ call' = Command("gateway")
    /\ written' = NoWrite
    /\ UNCHANGED log
    /\ UNCHANGED engines
    /\ captured' = NoRegion
    /\ previous' = Carried
    /\ UNCHANGED <<myrtille, settings, audioPipe, inputsPipe, process, LastError,
                   exitCode, reader, thread, dispatch, window>>

\* an exit that leaves the audio pipe open and reports success
ReaderExitsQuietly ==
    /\ process = "running"
    /\ ~myrtille.processInputs
    /\ inputsPipe' = [inputsPipe EXCEPT !.state = "closed"]
    /\ updatesPipe' = "closed"
    /\ exitCode' = 0
    /\ process' = "exited"
    /\ call' = Command("exit")
    /\ written' = NoWrite
    /\ UNCHANGED log
    /\ UNCHANGED engines
    /\ captured' = NoRegion
    /\ previous' = Carried
    /\ UNCHANGED <<myrtille, settings, audioPipe, LastError, reader, thread, dispatch,
                   window>>

\* the session engine records an error: what freerdp_get_last_error returns
EngineRecordsError(code) ==
    /\ process = "running"
    /\ LastError # code
    /\ LastError' = code
    /\ call' = Command("engine")
    /\ written' = NoWrite
    /\ UNCHANGED log
    /\ UNCHANGED engines
    /\ captured' = NoRegion
    /\ previous' = Carried
    /\ UNCHANGED <<myrtille, settings, updatesPipe, audioPipe, inputsPipe, process,
                   exitCode, reader, thread, dispatch, window>>

\* the reader leaves its loop once processInputs is false, closes the three
\* handles and exits the process with freerdp_get_last_error
ReaderExits ==
    /\ process = "running"
    /\ ~myrtille.processInputs
    /\ inputsPipe' = [inputsPipe EXCEPT !.state = "closed"]
    /\ updatesPipe' = "closed"
    /\ audioPipe' = "closed"
    /\ exitCode' = LastError
    /\ process' = "exited"
    /\ call' = Command("exit")
    /\ written' = NoWrite
    /\ UNCHANGED log
    /\ UNCHANGED engines
    /\ captured' = NoRegion
    /\ previous' = Carried
    /\ UNCHANGED <<myrtille, settings, LastError, reader, thread, dispatch, window>>

(***************************************************************************)
(* processImage and wf_myrtille_send_cursor step by step, for two threads  *)
(* that run them at once: the reader thread serves TAKE_SCREENSHOT and     *)
(* REQUEST_FULLSCREEN_UPDATE, the display thread sends regions and the     *)
(* cursor.  imageIdx is a std::atomic<int>: the comparison with INT_MAX,   *)
(* the store of 0 and the increment are three atomic operations.           *)
(***************************************************************************)
Threads == {"reader", "display"}

NoCandidate == [stream |-> NULL, format |-> 0, quality |-> 0, size |-> 0]

Resting ==
    [ pc |-> "idle", op |-> "none", region |-> Unset, fullscreen |-> FALSE,
      e |-> NoCandidate, idx |-> 0 ]

\* thread t has its candidate e and reaches "send the image"
Encoded(t, op, region, fullscreen, e) ==
    thread' = [thread EXCEPT ![t] = [ pc |-> "check", op |-> op, region |-> region,
                                      fullscreen |-> fullscreen, e |-> e, idx |-> 0 ]]

Stepped(op) ==
    /\ call' = Command(op)
    /\ written' = NoWrite
    /\ UNCHANGED log
    /\ UNCHANGED engines
    /\ captured' = NoRegion
    /\ previous' = Carried
    /\ UNCHANGED <<settings, updatesPipe, audioPipe, inputsPipe, process,
                   LastError, exitCode, reader, dispatch, window>>

ReaderEncodes(op, codec) ==
    LET m == IF op = "SCN" THEN [myrtille EXCEPT !.screenshotEnabled = TRUE]
             ELSE myrtille
    IN  /\ thread["reader"].pc = "idle"
        /\ myrtille' = m
        /\ Encoded("reader", op, ScreenRegion(m), TRUE, Encode(m, TRUE, op = "SCN", codec))
        /\ Stepped(op)

DisplayEncodesRegion(region, codec) ==
    LET r == Regulator(myrtille, region)
    IN  /\ thread["display"].pc = "idle"
        /\ ConsistentRegion(region)
        /\ myrtille' = r.m
        /\ IF r.region = NoRegion THEN UNCHANGED thread
           ELSE Encoded("display", "region", ScaleRegion(r.m, r.region), FALSE,
                        Encode(r.m, FALSE, FALSE, codec))
        /\ call' = Command("region")
        /\ written' = NoWrite
        /\ UNCHANGED log
        /\ UNCHANGED engines
        /\ captured' = r.region
        /\ previous' = Carried
        /\ window' = Observe(window, region, r.region # NoRegion)
        /\ UNCHANGED <<settings, updatesPipe, audioPipe, inputsPipe, process,
                       LastError, exitCode, reader, dispatch>>

DisplayEncodesCursor(pngSize) ==
    /\ thread["display"].pc = "idle"
    /\ Encoded("display", "cursor", CursorRegion, FALSE, CursorImage(pngSize))
    /\ Stepped("cursor")
    /\ UNCHANGED myrtille

\* if (myrtille->imageIdx == INT_MAX)
CheckImageIdx(t) ==
    /\ thread[t].pc = "check"
    /\ thread' = [thread EXCEPT ![t].pc = IF myrtille.imageIdx = INT_MAX
                                          THEN "reset" ELSE "test"]
    /\ Stepped(thread[t].op)
    /\ UNCHANGED myrtille

\* myrtille->imageIdx = 0;
ResetImageIdx(t) ==
    /\ thread[t].pc = "reset"
    /\ myrtille' = [myrtille EXCEPT !.imageIdx = 0]
    /\ thread' = [thread EXCEPT ![t].pc = "test"]
    /\ Stepped(thread[t].op)

\* if (stream != NULL && size > 0) ... ++myrtille->imageIdx
IncrementImageIdx(t) ==
    /\ thread[t].pc = "test"
    /\ IF thread[t].e.stream # NULL /\ thread[t].e.size > 0
       THEN LET idx == AtomicIncrement(myrtille.imageIdx)
            IN  /\ myrtille' = [myrtille EXCEPT !.imageIdx = idx]
                /\ thread' = [thread EXCEPT ![t].pc = "send", ![t].idx = idx]
       ELSE /\ thread' = [thread EXCEPT ![t] = Resting]
            /\ UNCHANGED myrtille
    /\ Stepped(thread[t].op)

\* sendImage(..., idx, ...)
CallSendImage(t) ==
    LET th == thread[t]
        p == sendImage(myrtille, updatesPipe, th.idx, th.region.left, th.region.top,
                       th.region.right - th.region.left,
                       th.region.bottom - th.region.top,
                       th.e.format, th.e.quality, th.e.size, th.fullscreen)
    IN  /\ th.pc = "send"
        /\ myrtille' = p.m
        /\ written' = p.write
        /\ log' = Logged(p.write)
        /\ UNCHANGED engines
        /\ thread' = [thread EXCEPT ![t] = Resting]
        /\ call' = Command(th.op)
        /\ captured' = NoRegion
        /\ previous' = Carried
        /\ UNCHANGED <<settings, updatesPipe, audioPipe, inputsPipe, process,
                       LastError, exitCode, reader, dispatch, window>>

(***************************************************************************)
(* What is explored: the inputs and the counters' ranges.                  *)
(***************************************************************************)
CountExplored(imageCount) ==
    (0 <= imageCount /\ imageCount < MaxCount) \/ imageCount >= INT_MAX - NearMax

IdxExplored(imageIdx) ==
    (0 <= imageIdx /\ imageIdx < MaxIdx) \/ imageIdx >= INT_MAX - NearMax

\* region events: squares along the desktop's diagonal, and some that stick out
\* of the desktop, which the consistency check refuses
RegionEvents ==
    { Rect(a, a, b, b) : a \in 0..Min(DesktopWidth, DesktopHeight),
                         b \in 0..(Min(DesktopWidth, DesktopHeight) + 1) }

\* region events on the whole desktop, and one the consistency check refuses
DesktopEvents ==
    { Rect(0, 0, DesktopWidth, DesktopHeight),
      Rect(0, 0, DesktopWidth + 1, DesktopHeight + 1) }

\* both codecs fail, or both return the same size
TiedCodecResults(imageEncoding) ==
    { c \in CodecResults(imageEncoding) : c.png = c.jpg }

QuantityArgs ==
    { Bytes(<<"5">>), Bytes(<<"1", "0">>), Bytes(<<"2", "0">>), Bytes(<<"2", "5">>),
      Bytes(<<"5", "0">>), Bytes(<<"1", "0", "0">>), Bytes(<<"2", "0", "0">>) }

EncodingArgs ==
    { Bytes(<<"0">>), Bytes(<<"1">>), Bytes(<<"2">>), Bytes(<<"3">>), Bytes(<<"4">>) }

QualityArgs == { Bytes(<<"1", "0">>), Bytes(<<"5", "0">>), Bytes(<<"1", "0", "0">>) }

FullscreenArgs == { <<>>, Bytes(<<"a", "d", "a", "p", "t", "i", "v", "e">>) }

\* messages of the gateway, and some it never sends: a tag that is not
\* registered, with and without arguments, and a message too short for a tag
ReaderMessages ==
    { Bytes(<<"S", "R", "V", "a", ":", "1">>),
      Bytes(<<"S", "R", "V", "[", "b", "]", ":", "2">>),
      Bytes(<<"X", "Y", "Z", "c", ":", "3">>),
      Bytes(<<"X", "Y", "Z">>),
      Bytes(<<"X", "Y">>),
      Bytes(<<"Q", "N", "T", "5", "0">>),
      Bytes(<<"F", "S", "U">>),
      Bytes(<<"C", "L", "O">>) }

\* a session that has run for a while: the event counter has counted the
\* valid region events, the index the images sent, the gateway has set a rate
InitFrom(counts, idxs, quantities) ==
    /\ \E c \in counts, i \in idxs, q \in quantities :
          myrtille = [wf_myrtille_start EXCEPT !.imageCount = c,
                                               !.imageIdx = i,
                                               !.imageQuantity = q]
    /\ settings = [ServerHostname |-> StrNull, ServerPort |-> 3389]
    /\ updatesPipe = "open"
    /\ audioPipe = "open"
    /\ inputsPipe = [state |-> "open", data |-> <<>>]
    /\ process = "running"
    /\ LastError = 0
    /\ exitCode = 0
    /\ reader = [sizeHeader |-> TRUE, bytesToRead |-> 4]
    /\ thread = [t \in Threads |-> Resting]
    /\ dispatch = NoDispatch
    /\ call = NoCall
    /\ captured = NoRegion
    /\ written = NoWrite
    /\ log = {}
    /\ engines = 0
    /\ previous = myrtille.imageIdx
    /\ window = IF myrtille.imageQuantity = wf_myrtille_start.imageQuantity
                THEN FreshWindow ELSE BrokenWindow

RegionUpdate ==
    /\ process = "running"
    /\ CountExplored(myrtille.imageCount)
    /\ IdxExplored(myrtille.imageIdx)
    /\ \E region \in RegionEvents :
         \E codec \in TiedCodecResults(myrtille.imageEncoding) :
            wf_myrtille_send_region(region, codec)

DesktopUpdate ==
    /\ process = "running"
    /\ CountExplored(myrtille.imageCount)
    /\ IdxExplored(myrtille.imageIdx)
    /\ \E region \in DesktopEvents :
         \E codec \in TiedCodecResults(myrtille.imageEncoding) :
            wf_myrtille_send_region(region, codec)

ScreenUpdate ==
    /\ process = "running"
    /\ IdxExplored(myrtille.imageIdx)
    /\ \E adaptive \in BOOLEAN :
         \E codec \in TiedCodecResults(myrtille.imageEncoding) :
            wf_myrtille_send_screen(adaptive, codec)

CursorUpdate ==
    /\ process = "running"
    /\ IdxExplored(myrtille.imageIdx)
    /\ \E visible \in BOOLEAN, pngSize \in Sizes :
          wf_myrtille_send_cursor(visible, pngSize)

SetImageQuantity ==
    /\ process = "running"
    /\ \E commandArgs \in QuantityArgs : SET_IMAGE_QUANTITY(commandArgs)
    /\ UNCHANGED <<inputsPipe, reader, thread, dispatch>>

SetImageEncoding ==
    /\ process = "running"
    /\ \E commandArgs \in EncodingArgs : SET_IMAGE_ENCODING(commandArgs)
    /\ UNCHANGED <<inputsPipe, reader, thread, dispatch>>

SetImageQuality ==
    /\ process = "running"
    /\ \E commandArgs \in QualityArgs : SET_IMAGE_QUALITY(commandArgs)
    /\ UNCHANGED <<inputsPipe, reader, thread, dispatch>>

RequestFullscreenUpdate ==
    /\ process = "running"
    /\ IdxExplored(myrtille.imageIdx)
    /\ \E commandArgs \in FullscreenArgs :
         \E codec \in CodecResults(myrtille.imageEncoding) :
            REQUEST_FULLSCREEN_UPDATE(commandArgs, codec)
    /\ UNCHANGED <<inputsPipe, reader, thread, dispatch>>

TakeScreenshot ==
    /\ process = "running"
    /\ IdxExplored(myrtille.imageIdx)
    /\ \E codec \in CodecResults(myrtille.imageEncoding) : TAKE_SCREENSHOT(codec)
    /\ UNCHANGED <<inputsPipe, reader, thread, dispatch>>

GatewaySends == \E message \in ReaderMessages : GatewayWrites(message)

ReadInputs ==
    /\ IdxExplored(myrtille.imageIdx)
    /\ processInputsPipe(TiedCodecResults(myrtille.imageEncoding))

ReaderSendsScreen ==
    /\ process = "running"
    /\ IdxExplored(myrtille.imageIdx)
    /\ \E op \in {"FSU", "SCN"} :
         \E codec \in TiedCodecResults(myrtille.imageEncoding) :
            ReaderEncodes(op, codec)

\* region events up to the wrap of the event counter
DisplaySendsRegion ==
    /\ process = "running"
    /\ myrtille.imageCount >= INT_MAX - NearMax
    /\ IdxExplored(myrtille.imageIdx)
    /\ \E region \in DesktopEvents :
         \E codec \in TiedCodecResults(myrtille.imageEncoding) :
            DisplayEncodesRegion(region, codec)

DisplaySendsCursor ==
    /\ process = "running"
    /\ IdxExplored(myrtille.imageIdx)
    /\ \E pngSize \in Sizes : DisplayEncodesCursor(pngSize)

ThreadChecks == \E t \in Threads : CheckImageIdx(t)
ThreadResets == \E t \in Threads : ResetImageIdx(t)
ThreadIncrements == \E t \in Threads : IncrementImageIdx(t)
ThreadSends == \E t \in Threads : CallSendImage(t)

(***************************************************************************)
(* Spec: the region regulator, with the sampling rate set by the gateway   *)
(* at any moment and the event counter going through its whole range.      *)
(***************************************************************************)
Init == InitFrom({0, INT_MAX - NearMax}, {0}, {wf_myrtille_start.imageQuantity})

Next ==
    \/ RegionUpdate
    \/ SetImageQuantity

Spec == Init /\ [][Next]_vars

(***************************************************************************)
(* SpecIndex: the three producers of images on one thread, regulated or    *)
(* not, with the index going through its whole range and the gateway       *)
(* closing the updates pipe at any moment.                                  *)
(***************************************************************************)
InitIndex == InitFrom({0}, {0, INT_MAX - NearMax}, {50, 100})

NextIndex ==
    \/ DesktopUpdate
    \/ ScreenUpdate
    \/ CursorUpdate
    \/ GatewayClosesUpdates
    \/ ReaderExits

SpecIndex == InitIndex /\ [][NextIndex]_vars

(***************************************************************************)
(* SpecEncoding: processImage on every result of the codecs, under every   *)
(* encoding and quality the gateway sets.                                   *)
(***************************************************************************)
InitEncoding == InitFrom({0}, {0}, {wf_myrtille_start.imageQuantity})

NextEncoding ==
    \/ SetImageEncoding
    \/ SetImageQuality
    \/ RequestFullscreenUpdate
    \/ TakeScreenshot

SpecEncoding == InitEncoding /\ [][NextEncoding]_vars

(***************************************************************************)
(* SpecReader: the reader thread on the messages of the gateway.           *)
(***************************************************************************)
InitReader == InitFrom({0}, {0}, {wf_myrtille_start.imageQuantity})

NextReader ==
    \/ GatewaySends
    \/ GatewayClosesInputs
    \/ ReadInputs
    \/ ReaderExits

SpecReader == InitReader /\ [][NextReader]_vars

(***************************************************************************)
(* SpecThreads: the reader thread and the display thread sending images    *)
(* at once, with the index and the event counter near INT_MAX.             *)
(***************************************************************************)
InitThreads ==
    InitFrom({INT_MAX - NearMax}, {INT_MAX - NearMax},
             {wf_myrtille_start.imageQuantity})

NextThreads ==
    \/ ReaderSendsScreen
    \/ DisplaySendsRegion
    \/ DisplaySendsCursor
    \/ ThreadChecks
    \/ ThreadResets
    \/ ThreadIncrements
    \/ ThreadSends

SpecThreads == InitThreads /\ [][NextThreads]_vars

(***************************************************************************)
(* SpecConfig: the reader thread on the configuration commands of the      *)
(* gateway, each framed by its length header.                              *)
(***************************************************************************)
ConfigMessages ==
    { Bytes(<<"E", "C", "D", "0">>), Bytes(<<"E", "C", "D", "2">>),
      Bytes(<<"E", "C", "D", "3">>),
      Bytes(<<"Q", "L", "T", "1", "0">>), Bytes(<<"Q", "L", "T", "7", "5">>),
      Bytes(<<"Q", "N", "T", "2", "5">>), Bytes(<<"Q", "N", "T", "2", "0", "0">>) }

GatewayConfigures == \E message \in ConfigMessages : GatewayWrites(message)

InitConfig == InitFrom({0}, {0}, {wf_myrtille_start.imageQuantity})

NextConfig ==
    \/ GatewayConfigures
    \/ ReadInputs

SpecConfig == InitConfig /\ [][NextConfig]_vars

(***************************************************************************)
(* SpecStream: the reader thread on a pipe in byte mode.  The gateway      *)
(* writes whole framed messages or parts of them, ahead of the reader or   *)
(* not, and may close the pipe; the engine records errors.                 *)
(***************************************************************************)
ErrorCodes == 0..MaxError

\* a message framed by its length header
Framed(message) == int32ToBytes(Len(message)) \o message

\* what the gateway writes at once: an empty message, a message, two
\* messages, and a message whose header and payload each arrive in two parts
StreamChunks ==
    { Framed(<<>>),
      Framed(Bytes(<<"E", "C", "D", "2">>)),
      Framed(Bytes(<<"C", "L", "O">>)) \o Framed(Bytes(<<"E", "C", "D", "3">>)),
      SubSeq(Framed(Bytes(<<"C", "L", "O">>)), 1, 2),
      SubSeq(Framed(Bytes(<<"C", "L", "O">>)), 3, 6),
      SubSeq(Framed(Bytes(<<"C", "L", "O">>)), 7, 7) }

GatewayStreams == \E chunk \in StreamChunks : GatewayWritesBytes(chunk)

EngineFails == \E code \in ErrorCodes : EngineRecordsError(code)

InitStream == InitFrom({0}, {0}, {wf_myrtille_start.imageQuantity})

NextStream ==
    \/ GatewayStreams
    \/ GatewayClosesInputs
    \/ EngineFails
    \/ ReadInputs
    \/ ReaderExits

SpecStream == InitStream /\ [][NextStream]_vars

(***************************************************************************)
(* The text messages: the clipboard of the server and the print jobs on    *)
(* the display side, the reload signal of the reader, and a gateway that   *)
(* may close the updates pipe.                                             *)
(***************************************************************************)
\* clipboard data in code units, terminator included: none at all, an empty
\* text, one character, one outside Latin-1, one with a zero low byte, an
\* embedded terminator, no terminator
ClipboardData ==
    { <<>>, <<0>>, <<97, 0>>, <<8364, 0>>, <<256, 0>>, <<0, 98, 0>>, <<97, 98>> }

PrintJobNames == { <<>>, <<100>>, <<256, 8364>> }

ReconnectMessages ==
    { Bytes(<<"R", "C", "N">>), Bytes(<<"R", "C", "N", "a", "|", "1">>),
      Bytes(<<"R", "C", "N", "|", "1">>), Bytes(<<"R", "C", "N", "a", "|", "0">>),
      Bytes(<<"R", "C", "N", "a", "|", "1", "|">>),
      Bytes(<<"R", "C", "N", "a", "|", "1", "|", "1">>) }

ServerClipboard ==
    /\ process = "running"
    /\ \E data \in ClipboardData : wf_myrtille_send_server_clipboard(data)

PrintJob ==
    /\ process = "running"
    /\ \E printJobName \in PrintJobNames : wf_myrtille_send_printjob(printJobName)

GatewayReconnects == \E message \in ReconnectMessages : GatewayWrites(message)

InitText == InitFrom({0}, {0}, {wf_myrtille_start.imageQuantity})

NextText ==
    \/ ServerClipboard
    \/ PrintJob
    \/ GatewayReconnects
    \/ ReadInputs
    \/ GatewayClosesUpdates

SpecText == InitText /\ [][NextText]_vars

(***************************************************************************)
(* The producers and their pipes: the display side sends regions, print    *)
(* job notices and audio while the reader waits for the gateway; a write   *)
(* may fail for a cause that passes or because the gateway closed the      *)
(* pipe; the reader leaves once processInputs is false.                    *)
(***************************************************************************)
AudioSizes == 1..MaxSize

AudioUpdate ==
    /\ process = "running"
    /\ \E size \in AudioSizes : wf_myrtille_send_audio(size)

InitWrites == InitFrom({0}, {0}, {wf_myrtille_start.imageQuantity})

NextWrites ==
    \/ DesktopUpdate
    \/ PrintJob
    \/ AudioUpdate
    \/ UpdatesFaultBegins
    \/ UpdatesFaultEnds
    \/ AudioFaultBegins
    \/ AudioFaultEnds
    \/ GatewayClosesUpdates
    \/ ReaderExits

SpecWrites == InitWrites /\ [][NextWrites]_vars

(***************************************************************************)
(* The clipboard of the client: the gateway sends the text copied in the   *)
(* browser, as UTF-8, among other commands.                                *)
(***************************************************************************)
\* texts in UTF-16 code units: empty, ASCII, Latin-1 and a currency sign, a
\* character outside the basic plane, a text with a character 0 inside
ClipboardTexts ==
    { <<>>, <<97>>, <<233, 8364>>, <<55357, 56832>>, <<97, 0, 98>> }

\* the UTF-8 bytes of a text, as the gateway encodes it
RECURSIVE Utf8(_)
Utf8(units) ==
    IF units = <<>> THEN <<>>
    ELSE IF units[1] < 128 THEN <<units[1]>> \o Utf8(Tail(units))
    ELSE IF units[1] < 2048
    THEN <<192 + (units[1] \div 64), 128 + (units[1] % 64)>> \o Utf8(Tail(units))
    ELSE IF units[1] \in 55296..56319 /\ Len(units) >= 2
    THEN LET v == 65536 + (units[1] - 55296) * 1024 + (units[2] - 56320)
         IN  << 240 + (v \div 262144), 128 + ((v \div 4096) % 64),
                128 + ((v \div 64) % 64), 128 + (v % 64) >>
             \o Utf8(SubSeq(units, 3, Len(units)))
    ELSE << 224 + (units[1] \div 4096), 128 + ((units[1] \div 64) % 64),
            128 + (units[1] % 64) >> \o Utf8(Tail(units))

ClipboardMessages ==
    { Bytes(<<"C", "L", "P">>) \o Utf8(text) : text \in ClipboardTexts }
    \union { Bytes(<<"E", "C", "D", "2">>) }

GatewayCopies == \E message \in ClipboardMessages : GatewayWrites(message)

InitClipboard == InitFrom({0}, {0}, {wf_myrtille_start.imageQuantity})

NextClipboard ==
    \/ GatewayCopies
    \/ ReadInputs

SpecClipboard == InitClipboard /\ [][NextClipboard]_vars

(***************************************************************************)
(* The display scaling: the gateway turns the scaling on and off and sends *)
(* the size of the browser, to sessions on a square desktop and on a       *)
(* desktop of 4 by 3.  No image is sent here.                              *)
(***************************************************************************)
AspectRatios == { [n |-> DesktopWidth, d |-> DesktopHeight], [n |-> 4, d |-> 3] }

Sizes1 == 1..MaxRequest

RECURSIVE Digits(_)
Digits(n) == IF n < 10 THEN <<48 + n>> ELSE Digits(n \div 10) \o <<48 + (n % 10)>>

\* the arguments "1|WxH" (keep the aspect ratio) or "0|WxH"
ResizeArgs(keepAspectRatio, w, h) ==
    <<IF keepAspectRatio THEN 49 ELSE 48>> \o Bytes(<<"|">>)
    \o Digits(w) \o Bytes(<<"x">>) \o Digits(h)

ResizeMessages ==
    { Bytes(tag) \o ResizeArgs(keepAspectRatio, w, h) :
        tag \in {<<"S", "C", "A">>, <<"R", "S", "Z">>},
        keepAspectRatio \in BOOLEAN, w \in Sizes1, h \in Sizes1 }
    \union { Bytes(<<"S", "C", "A", "0">>), Bytes(<<"S", "C", "A", "1">>),
             Bytes(<<"R", "S", "Z", "1", "|", "x">>) }

GatewayResizes == \E message \in ResizeMessages : GatewayWrites(message)

InitResize ==
    /\ \E a \in AspectRatios :
          myrtille = [wf_myrtille_start EXCEPT !.aspectRatio = a,
                                               !.clientWidth = a.n,
                                               !.clientHeight = a.d]
    /\ settings = [ServerHostname |-> StrNull, ServerPort |-> 3389]
    /\ updatesPipe = "open"
    /\ audioPipe = "open"
    /\ inputsPipe = [state |-> "open", data |-> <<>>]
    /\ process = "running"
    /\ LastError = 0
    /\ exitCode = 0
    /\ reader = [sizeHeader |-> TRUE, bytesToRead |-> 4]
    /\ thread = [t \in Threads |-> Resting]
    /\ dispatch = NoDispatch
    /\ call = NoCall
    /\ captured = NoRegion
    /\ written = NoWrite
    /\ log = {}
    /\ engines = 0
    /\ previous = 0
    /\ window = FreshWindow

NextResize ==
    \/ GatewayResizes
    \/ ReadInputs

SpecResize == InitResize /\ [][NextResize]_vars

(***************************************************************************)
(* The session start: wf_myrtille_connect opens the three pipes in order   *)
(* and starts the reader thread.  A handle is "none" before it is          *)
(* assigned, "open" after a CreateFile that succeeded and "invalid"        *)
(* (INVALID_HANDLE_VALUE) after one that failed.  The process is           *)
(* "starting" before the call, "running" once the reader thread exists and *)
(* "unconnected" when the call returned NULL.  The error a failed          *)
(* CreateFile leaves is not 0 and is taken to be still there after the     *)
(* error is logged.                                                        *)
(***************************************************************************)
PipeNames == <<"inputs", "updates", "audio">>

ERROR_BAD_PIPE == 230
ERROR_PIPE_BUSY == 231

\* what CreateFile can do: 0 for a handle, else the error it leaves
CreateFileResults == {0, ERROR_BAD_PIPE, ERROR_PIPE_BUSY}

connectRemoteSessionPipe(lastError) == IF lastError = 0 THEN "open" ELSE "invalid"

\* created[name] is what CreateFile does for the pipe of that name
connectRemoteSessionPipes(created) ==
    LET inputs == connectRemoteSessionPipe(created["inputs"])
        updates == connectRemoteSessionPipe(created["updates"])
        audio == connectRemoteSessionPipe(created["audio"])
    IN  IF inputs = "invalid"
        THEN [inputsPipe |-> inputs, updatesPipe |-> "none", audioPipe |-> "none",
              result |-> created["inputs"]]
        ELSE IF updates = "invalid"
        THEN [inputsPipe |-> inputs, updatesPipe |-> updates, audioPipe |-> "none",
              result |-> created["updates"]]
        ELSE IF audio = "invalid"
        THEN [inputsPipe |-> inputs, updatesPipe |-> updates, audioPipe |-> audio,
              result |-> created["audio"]]
        ELSE [inputsPipe |-> inputs, updatesPipe |-> updates, audioPipe |-> audio,
              result |-> 0]

NotConnected ==
    [inputsPipe |-> "none", updatesPipe |-> "none", audioPipe |-> "none", result |-> 0]

\* the variant that starts the reader thread whatever the pipes did
wf_myrtille_connectAnyway(hasSessionId, created, threadCreated) ==
    IF ~hasSessionId THEN [pipes |-> NotConnected, thread |-> NULL]
    ELSE LET pipes == connectRemoteSessionPipes(created)
         IN  [pipes |-> pipes,
              thread |-> IF threadCreated THEN "processInputsPipe" ELSE NULL]

\* the handle of the reader thread, or NULL
wf_myrtille_connect(hasSessionId, created, threadCreated) ==
    IF ~hasSessionId THEN [pipes |-> NotConnected, thread |-> NULL]
    ELSE LET pipes == connectRemoteSessionPipes(created)
         IN  IF pipes.result # 0 THEN [pipes |-> pipes, thread |-> NULL]
             ELSE [pipes |-> pipes,
                   thread |-> IF threadCreated THEN "processInputsPipe" ELSE NULL]

Connects ==
    /\ process = "starting"
    /\ \E hasSessionId \in BOOLEAN, threadCreated \in BOOLEAN,
          created \in [{"inputs", "updates", "audio"} -> CreateFileResults] :
          LET r == wf_myrtille_connect(hasSessionId, created, threadCreated)
          IN  /\ inputsPipe' = [inputsPipe EXCEPT !.state = r.pipes.inputsPipe]
              /\ updatesPipe' = r.pipes.updatesPipe
              /\ audioPipe' = r.pipes.audioPipe
              /\ process' = IF r.thread = NULL THEN "unconnected" ELSE "running"
    /\ call' = Command("connect")
    /\ written' = NoWrite
    /\ UNCHANGED log
    /\ UNCHANGED engines
    /\ captured' = NoRegion
    /\ previous' = Carried
    /\ UNCHANGED <<myrtille, settings, LastError, exitCode, reader, thread,
                   dispatch, window>>

\* the gateway writes a command to a pipe that nobody reads
GatewayWritesUnread ==
    /\ process = "unconnected"
    /\ inputsPipe.state = "open"
    /\ inputsPipe.data = <<>>
    /\ \E message \in ResizeMessages :
          inputsPipe' = [inputsPipe EXCEPT
                            !.data = int32ToBytes(Len(message)) \o message]
    /\ call' = Command("gateway")
    /\ written' = NoWrite
    /\ UNCHANGED log
    /\ UNCHANGED engines
    /\ captured' = NoRegion
    /\ previous' = Carried
    /\ UNCHANGED <<myrtille, settings, updatesPipe, audioPipe, process,
                   LastError, exitCode, reader, thread, dispatch, window>>

InitConnect ==
    /\ myrtille = wf_myrtille_start
    /\ settings = [ServerHostname |-> StrNull, ServerPort |-> 3389]
    /\ updatesPipe = "none"
    /\ audioPipe = "none"
    /\ inputsPipe = [state |-> "none", data |-> <<>>]
    /\ process = "starting"
    /\ LastError = 0
    /\ exitCode = 0
    /\ reader = [sizeHeader |-> TRUE, bytesToRead |-> 4]
    /\ thread = [t \in Threads |-> Resting]
    /\ dispatch = NoDispatch
    /\ call = NoCall
    /\ captured = NoRegion
    /\ written = NoWrite
    /\ log = {}
    /\ engines = 0
    /\ previous = 0
    /\ window = FreshWindow

NextConnect ==
    \/ Connects
    \/ GatewayWritesUnread
    \/ GatewayResizes
    \/ ReadInputs

SpecConnect == InitConnect /\ [][NextConnect]_vars

(***************************************************************************)
(* The write faults seen from the reader: the display side writes images,  *)
(* print job notices and audio while the gateway sends nothing on the      *)
(* inputs pipe.  The reader thread is then inside ReadFile, which is       *)
(* synchronous and returns when there is something to read or when the     *)
(* gateway has closed the pipe; only then does the thread get to the test  *)
(* of processInputs.  The reader thread is scheduled by the system, so     *)
(* that what it can do it does in the end; nothing makes the gateway act.  *)
(***************************************************************************)
\* the reader thread is inside a ReadFile that has nothing to return
ReadFilePending == inputsPipe.data = <<>> /\ inputsPipe.state # "broken"

ReaderExitsAfterRead ==
    /\ ~ReadFilePending
    /\ ReaderExits

NextFault ==
    \/ DesktopUpdate
    \/ PrintJob
    \/ AudioUpdate
    \/ UpdatesFaultBegins
    \/ UpdatesFaultEnds
    \/ AudioFaultBegins
    \/ AudioFaultEnds
    \/ EngineFails
    \/ GatewayClosesInputs
    \/ ReadInputs
    \/ ReaderExitsAfterRead

SpecFault ==
    /\ InitWrites
    /\ [][NextFault]_vars
    /\ WF_vars(ReadInputs)
    /\ WF_vars(ReaderExitsAfterRead)

(***************************************************************************)
(* processImage read by read: the display thread sends a region while the  *)
(* reader thread serves SET_IMAGE_ENCODING and SET_IMAGE_QUALITY.          *)
(* imageEncoding and imageQuality are plain ints that processImage reads   *)
(* again at each test; each action below is one statement of it, and the   *)
(* reader may run between any two.  The record e of the thread holds the   *)
(* locals: quality, the two streams and their sizes, then stream, format   *)
(* and size; bmp is what each codec makes of the bitmap, and enc0 and q0   *)
(* are the settings read on entry.                                         *)
(***************************************************************************)
\* what the codecs make of a bitmap when all of them succeed
CodecSuccesses ==
    { [png |-> 1, jpg |-> 2, webp |-> 1], [png |-> 2, jpg |-> 1, webp |-> 2] }

Locals(m, fullscreen, adaptive, codec) ==
    [ stream |-> NULL, format |-> 0, size |-> 0,
      quality |-> InitialQuality(m, fullscreen, adaptive),
      pngStream |-> NULL, pngSize |-> 0, jpgStream |-> NULL, jpgSize |-> 0,
      bmp |-> codec, enc0 |-> m.imageEncoding, q0 |-> m.imageQuality ]

At(pc) == process = "running" /\ thread["display"].pc = pc

Goes(pc, e) ==
    /\ thread' = [thread EXCEPT !["display"].pc = pc, !["display"].e = e]
    /\ Stepped("region")
    /\ UNCHANGED myrtille

\* wf_myrtille_send_region up to the entry of processImage: int quality = ...
DisplayEntersProcessImage ==
    \E codec \in CodecSuccesses :
        LET region == Rect(0, 0, DesktopWidth, DesktopHeight)
            r == Regulator(myrtille, region)
        IN  /\ At("idle")
            /\ IdxExplored(myrtille.imageIdx)
            /\ CountExplored(myrtille.imageCount)
            /\ r.region # NoRegion
            /\ myrtille' = r.m
            /\ thread' = [thread EXCEPT !["display"] =
                             [ pc |-> "family", op |-> "region",
                               region |-> ScaleRegion(r.m, r.region),
                               fullscreen |-> FALSE, idx |-> 0,
                               e |-> Locals(r.m, FALSE, FALSE, codec) ]]
            /\ Stepped("region")

\* if (imageEncoding == PNG || imageEncoding == JPEG || imageEncoding == AUTO)
DisplayTestsFamily ==
    /\ At("family")
    /\ Goes(IF myrtille.imageEncoding \in
                  {IMAGE_ENCODING_PNG, IMAGE_ENCODING_JPEG, IMAGE_ENCODING_AUTO}
            THEN "png" ELSE "webp",
            thread["display"].e)

\* convert the bitmap into PNG
DisplaySavesPng ==
    LET e == thread["display"].e
    IN  /\ At("png")
        /\ Goes("jpg",
                IF myrtille.imageEncoding \in {IMAGE_ENCODING_PNG, IMAGE_ENCODING_AUTO}
                THEN [e EXCEPT !.pngStream = "pngStream", !.pngSize = e.bmp.png]
                ELSE e)

\* convert the bitmap into JPEG
DisplaySavesJpeg ==
    LET e == thread["display"].e
    IN  /\ At("jpg")
        /\ Goes("select",
                IF myrtille.imageEncoding \in {IMAGE_ENCODING_JPEG, IMAGE_ENCODING_AUTO}
                THEN [e EXCEPT !.jpgStream = "jpgStream", !.jpgSize = e.bmp.jpg]
                ELSE e)

\* use the lowest sized format
DisplaySelects ==
    LET e == thread["display"].e
    IN  /\ At("select")
        /\ Goes("emit",
                IF PngSelected(myrtille.imageEncoding, e.pngSize, e.jpgSize)
                THEN [e EXCEPT !.stream = e.pngStream, !.format = IMAGE_FORMAT_PNG,
                               !.quality = IMAGE_QUALITY_HIGHEST, !.size = e.pngSize]
                ELSE [e EXCEPT !.stream = e.jpgStream, !.format = IMAGE_FORMAT_JPEG,
                               !.size = e.jpgSize])

\* else if (imageEncoding == WEBP): convert the bitmap into WEBP
DisplayEncodesWebp ==
    LET e == thread["display"].e
    IN  /\ At("webp")
        /\ Goes("emit",
                IF myrtille.imageEncoding = IMAGE_ENCODING_WEBP
                THEN [e EXCEPT !.stream = "webpStream", !.format = IMAGE_FORMAT_WEBP,
                               !.size = e.bmp.webp]
                ELSE e)

\* send the image
DisplayEmits ==
    LET th == thread["display"]
        p == SendSelected(myrtille, updatesPipe, th.e, th.region, th.fullscreen)
    IN  /\ At("emit")
        /\ myrtille' = p.m
        /\ written' = p.write
        /\ log' = Logged(p.write)
        /\ UNCHANGED engines
        /\ thread' = [thread EXCEPT !["display"] = Resting]
        /\ call' = Command("region")
        /\ captured' = NoRegion
        /\ previous' = Carried
        /\ UNCHANGED <<settings, updatesPipe, audioPipe, inputsPipe, process,
                       LastError, exitCode, reader, dispatch, window>>

RaceMessages ==
    { Bytes(<<"E", "C", "D", "1">>), Bytes(<<"E", "C", "D", "2">>),
      Bytes(<<"E", "C", "D", "3">>), Bytes(<<"Q", "L", "T", "1", "0">>) }

GatewayTunes == \E message \in RaceMessages : GatewayWrites(message)

NextRace ==
    \/ GatewayTunes
    \/ ReadInputs
    \/ DisplayEntersProcessImage
    \/ DisplayTestsFamily
    \/ DisplaySavesPng
    \/ DisplaySavesJpeg
    \/ DisplaySelects
    \/ DisplayEncodesWebp
    \/ DisplayEmits

SpecRace == InitWrites /\ [][NextRace]_vars

(***************************************************************************)
(* wf_myrtille_send_region read by read: imageQuantity is a plain int that *)
(* the regulator reads at the test of the sampling rates and again at the  *)
(* modulo, and the reader thread may serve SET_IMAGE_QUANTITY in between.  *)
(* An integer division by zero ends the process.                           *)
(***************************************************************************)
\* 100 / imageQuantity in int arithmetic, imageQuantity not 0
SamplingDivisor(imageQuantity) ==
    IF imageQuantity > 0 THEN IMAGE_COUNT_SAMPLING_RATE \div imageQuantity
    ELSE -(IMAGE_COUNT_SAMPLING_RATE \div (-imageQuantity))

\* imageCount % (100 / imageQuantity) divides by zero
DividesByZero(imageQuantity) ==
    imageQuantity = 0 \/ SamplingDivisor(imageQuantity) = 0

\* the rest of wf_myrtille_send_region for the region that goes on, or for
\* none when the event is dropped
DisplayGoesOn(m, event, region, codec) ==
    LET p == IF region = NoRegion THEN [m |-> m, write |-> NoWrite]
             ELSE processImage(m, updatesPipe, ScaleRegion(m, region),
                               FALSE, FALSE, codec)
    IN  /\ myrtille' = p.m
        /\ written' = p.write
        /\ log' = Logged(p.write)
        /\ UNCHANGED engines
        /\ captured' = region
        /\ previous' = Carried
        /\ window' = Observe(window, event, region # NoRegion)
        /\ call' = IF region = NoRegion
                   THEN [Command("region") EXCEPT !.region = event]
                   ELSE ImageCall("region", event, FALSE, codec)
        /\ thread' = [thread EXCEPT !["display"] = Resting]
        /\ UNCHANGED <<settings, updatesPipe, audioPipe, inputsPipe, process,
                       LastError, exitCode, reader, dispatch>>

\* the event is counted and imageQuantity is tested against the sampling
\* rates; the accumulator takes the region when it is one of them
DisplayCountsEvent ==
    LET region == Rect(0, 0, DesktopWidth, DesktopHeight)
        m == [myrtille EXCEPT !.imageCount = AtomicIncrement(ResetAtMax(@))]
    IN  /\ At("idle")
        /\ CountExplored(myrtille.imageCount)
        /\ IdxExplored(myrtille.imageIdx)
        /\ IF RegulatorEngaged(m.imageQuantity)
           THEN /\ myrtille' = [m EXCEPT !.imageBuffer = Consolidate(@, region)]
                /\ thread' = [thread EXCEPT !["display"] =
                                 [Resting EXCEPT !.pc = "modulo", !.op = "region",
                                                 !.region = region]]
                /\ Stepped("region")
           ELSE \E codec \in TiedCodecResults(m.imageEncoding) :
                   DisplayGoesOn(m, region, region, codec)

\* if (imageCount % (100 / imageQuantity) != 0) return; and what follows it
DisplayTakesModulo ==
    LET m == myrtille
        event == thread["display"].region
    IN  /\ At("modulo")
        /\ IF DividesByZero(m.imageQuantity)
           THEN /\ process' = "crashed"
                /\ call' = Command("region")
                /\ written' = NoWrite
                /\ captured' = NoRegion
                /\ previous' = Carried
                /\ UNCHANGED <<myrtille, settings, updatesPipe, audioPipe, inputsPipe,
                               LastError, exitCode, reader, thread, dispatch, log, engines,
                               window>>
           ELSE IF m.imageCount % SamplingDivisor(m.imageQuantity) # 0
           THEN \E codec \in TiedCodecResults(m.imageEncoding) :
                   DisplayGoesOn(m, event, NoRegion, codec)
           ELSE \E codec \in TiedCodecResults(m.imageEncoding) :
                   DisplayGoesOn([m EXCEPT !.imageBuffer = Unset], event,
                                 FlushedRegion(m.imageBuffer, event), codec)

SamplingMessages ==
    { Bytes(<<"Q", "N", "T", "5", "0">>), Bytes(<<"Q", "N", "T", "1", "0", "0">>),
      Bytes(<<"Q", "N", "T", "2", "0", "0">>), Bytes(<<"Q", "N", "T", "0">>) }

GatewaySamples == \E message \in SamplingMessages : GatewayWrites(message)

NextSampling ==
    \/ GatewaySamples
    \/ ReadInputs
    \/ DisplayCountsEvent
    \/ DisplayTakesModulo

SpecSampling == InitWrites /\ [][NextSampling]_vars

(***************************************************************************)
(* SpecClose: the end of processInputsPipe statement by statement, with    *)
(* the threads that produce display and audio updates still running: the   *)
(* reader leaves its loop on CLOSE_CLIENT, closes the three handles, shuts *)
(* GDI+ and the standard streams down and only then calls exit.            *)
(***************************************************************************)
\* CloseHandle on the three pipes, after the loop ended
ReaderClosesHandles ==
    /\ process = "running"
    /\ ~myrtille.processInputs
    /\ inputsPipe.state # "closed"
    /\ inputsPipe' = [inputsPipe EXCEPT !.state = "closed"]
    /\ updatesPipe' = "closed"
    /\ audioPipe' = "closed"
    /\ call' = Command("close")
    /\ written' = NoWrite
    /\ UNCHANGED log
    /\ UNCHANGED engines
    /\ captured' = NoRegion
    /\ previous' = Carried
    /\ UNCHANGED <<myrtille, settings, process, LastError, exitCode, reader,
                   thread, dispatch, window>>

\* GdiplusShutdown, fclose, then exit(freerdp_get_last_error(...))
ReaderCallsExit ==
    /\ process = "running"
    /\ ~myrtille.processInputs
    /\ inputsPipe.state = "closed"
    /\ exitCode' = LastError
    /\ process' = "exited"
    /\ call' = Command("exit")
    /\ written' = NoWrite
    /\ UNCHANGED log
    /\ UNCHANGED engines
    /\ captured' = NoRegion
    /\ previous' = Carried
    /\ UNCHANGED <<myrtille, settings, updatesPipe, audioPipe, inputsPipe,
                   LastError, reader, thread, dispatch, window>>

GatewayCloses == GatewayWrites(Bytes(<<"C", "L", "O">>))

\* the display thread's steps through processImage, while the process lives
DisplayChecksIdx == process = "running" /\ CheckImageIdx("display")
DisplayResetsIdx == process = "running" /\ ResetImageIdx("display")
DisplayIncrementsIdx == process = "running" /\ IncrementImageIdx("display")
DisplayCallsSendImage == process = "running" /\ CallSendImage("display")

NextClose ==
    \/ GatewayCloses
    \/ ReadInputs
    \/ ReaderClosesHandles
    \/ ReaderCallsExit
    \/ DisplaySendsRegion
    \/ DisplayChecksIdx
    \/ DisplayResetsIdx
    \/ DisplayIncrementsIdx
    \/ DisplayCallsSendImage
    \/ AudioUpdate

SpecClose == InitThreads /\ [][NextClose]_vars

\* the reader has closed the three handles and has not called exit yet
HandlesClosed == process = "running" /\ inputsPipe.state = "closed"

\* C40: no thread writes to the updates or audio channel after the reader
\* closed it: between the close of the three handles and process exit, no
\* write of an image or of audio data is issued
C40_NoWriteAfterClose == [][HandlesClosed => written'.msg.kind = "none"]_vars

(***************************************************************************)
(* SpecMalformed: the gateway sends numeric settings, some of them with an *)
(* argument that is no number, and a payload shorter than its tag.         *)
(***************************************************************************)
MalformedMessages ==
    { Bytes(<<"E", "C", "D", "2">>), Bytes(<<"E", "C", "D", "x">>),
      Bytes(<<"Q", "L", "T", "1", "0">>), Bytes(<<"Q", "L", "T">>),
      Bytes(<<"Q", "N", "T", "2", "5">>), Bytes(<<"Q", "N", "T", "-">>),
      Bytes(<<"E", "C">>) }

GatewaySendsMalformed ==
    \E message \in MalformedMessages : GatewayWrites(message)

NextMalformed ==
    \/ GatewaySendsMalformed
    \/ ReadInputs

SpecMalformed == InitWrites /\ [][NextMalformed]_vars

\* a payload shorter than its 3-byte tag, or a numeric setting whose argument
\* holds no number
Malformed(message) ==
    \/ Len(message) < 3
    \/ /\ MapLookup(commandMap, substr(message, 0, 3)) \in
             {COMMAND_SET_IMAGE_ENCODING, COMMAND_SET_IMAGE_QUALITY,
              COMMAND_SET_IMAGE_QUANTITY}
       /\ ~stoi(substr(message, 3, Len(message) - 3)).ok

MalformedDispatched ==
    /\ call'.op \in {"substr", "ECD", "QLT", "QNT"}
    /\ Malformed(dispatch'.message)

\* C32: a command whose argument is malformed is dropped: it changes no
\* state, and the reader keeps running and processes later commands
C32_MalformedDropped ==
    [][MalformedDispatched => myrtille' = myrtille /\ process' = "running"]_vars

(***************************************************************************)
(* SpecEngine: the gateway sends CONNECT_CLIENT any number of times        *)
(* (up to MaxEngines started threads) between configuration commands.      *)
(***************************************************************************)
MaxEngines == 2

GatewayConnects ==
    /\ engines < MaxEngines
    /\ GatewayWrites(Bytes(<<"C", "O", "N">>))

NextEngine ==
    \/ GatewayConnects
    \/ GatewayTunes
    \/ ReadInputs

SpecEngine == InitWrites /\ [][NextEngine]_vars

\* C39: at most one session-engine thread is started per session: a
\* CONNECT_CLIENT received after an earlier one starts no second thread
C39_OneEngine == engines <= 1

(***************************************************************************)
(* The region regulator (Spec).                                            *)
(***************************************************************************)
\* the regulator's divisor for the sampling rate in force
SamplingPeriod == IMAGE_COUNT_SAMPLING_RATE \div myrtille.imageQuantity

\* C2: while imageQuantity keeps a value q of {5, 10, 20, 25, 50}, exactly one
\* of every 100/q consecutive valid region events is forwarded: counted from
\* the previous forwarded event, the events dropped are fewer than 100/q and
\* the event forwarded is the (100/q)-th.
C2_OneOfEveryK ==
    (window.fixed /\ RegulatorEngaged(myrtille.imageQuantity)) =>
        IF window.fwd THEN window.n = SamplingPeriod
        ELSE window.n < SamplingPeriod

\* C3: while imageQuantity keeps a value of {5, 10, 20, 25, 50}, the region
\* forwarded is the bounding union of all the valid region events received
\* since the previous forwarded one, and the accumulator is unset (-1 on its
\* four bounds) once it is forwarded.
C3_ForwardedIsUnion ==
    ( call.op = "region" /\ window.fixed /\ window.fwd
      /\ RegulatorEngaged(myrtille.imageQuantity) ) =>
        /\ captured = window.rect
        /\ myrtille.imageBuffer = Unset

\* a forward that consolidated two different events over a whole period
C3_Witness ==
    /\ call.op = "region"
    /\ window.fixed /\ window.fwd
    /\ myrtille.imageQuantity = 25
    /\ window.n = 4
    /\ captured = Rect(0, 0, DesktopWidth, DesktopHeight)
    /\ call.region = Rect(0, 0, 0, 0)
    /\ myrtille.imageBuffer = Unset

\* a step that handled a valid region event: only those move imageCount
ValidRegionEvent == myrtille'.imageCount # myrtille.imageCount

\* C4: when imageQuantity is 100 or any other value outside {5, 10, 20, 25, 50},
\* every valid region event is forwarded with its own rectangle, and the
\* accumulator keeps its value.
C4_Unregulated ==
    [][ (ValidRegionEvent /\ ~RegulatorEngaged(myrtille.imageQuantity)) =>
            /\ call'.op = "region"
            /\ captured' = call'.region
            /\ myrtille'.imageBuffer = myrtille.imageBuffer ]_vars

\* an event forwarded as it came, at a rate outside the set, past an
\* accumulator that a regulated period left set
C4_Witness ==
    /\ myrtille.imageQuantity = 200
    /\ call.op = "region"
    /\ captured = call.region
    /\ captured = Rect(0, 0, 0, 0)
    /\ myrtille.imageBuffer = Rect(1, 1, 1, 1)

(***************************************************************************)
(* The producers of images and the index (SpecIndex).                      *)
(***************************************************************************)
\* C5: a fullscreen or cursor update leaves imageCount and imageBuffer as they
\* are, and whatever imageQuantity is, its image is written on the updates
\* pipe as soon as the encoding returned one.
C5_BypassRegulator ==
    [][ (call'.op \in {"screen", "cursor"}) =>
            /\ myrtille'.imageCount = myrtille.imageCount
            /\ myrtille'.imageBuffer = myrtille.imageBuffer
            /\ (call'.visible /\ call'.png > 0) => written'.msg.kind = "image" ]_vars

\* a fullscreen update written while the regulator is dropping region events
C5_Witness ==
    /\ call.op = "screen"
    /\ myrtille.imageQuantity = 50
    /\ myrtille.imageCount = 1
    /\ myrtille.imageBuffer # Unset
    /\ written.msg.kind = "image"
    /\ written.msg.fullscreen = 1

\* a cursor written while the regulator is dropping region events
C5_WitnessCursor ==
    /\ call.op = "cursor"
    /\ myrtille.imageQuantity = 50
    /\ myrtille.imageCount = 1
    /\ myrtille.imageBuffer # Unset
    /\ written.msg.kind = "image"
    /\ written.msg.format = IMAGE_FORMAT_CUR

\* C6 as the specification states it: each image written carries the index of
\* the image before it plus 1, and imageIdx moves only when an image is
\* written.
C6_Original ==
    [][ IF written'.msg.kind = "image" /\ written'.ok
        THEN written'.msg.idx - 1 = previous'
        ELSE myrtille'.imageIdx = myrtille.imageIdx ]_vars

\* C6: with one producer, each image handed to WriteFile carries imageIdx
\* plus 1, or 1 when imageIdx was INT_MAX, and imageIdx is then that index
\* whether the write succeeds or not; an image that is written carries the
\* index of the image written before it plus 1, or 1 after INT_MAX; a step
\* that hands no image to WriteFile leaves imageIdx as it is, or at 0 when it
\* was INT_MAX.
C6_IndexSequence ==
    [][ IF written'.msg.kind = "image"
        THEN /\ written'.msg.idx =
                  IF myrtille.imageIdx = INT_MAX THEN 1 ELSE myrtille.imageIdx + 1
             /\ myrtille'.imageIdx = written'.msg.idx
             /\ written'.ok =>
                  written'.msg.idx = IF previous' = INT_MAX THEN 1 ELSE previous' + 1
        ELSE myrtille'.imageIdx \in
                  {myrtille.imageIdx, ResetAtMax(myrtille.imageIdx)} ]_vars

\* the index was consumed by an image that WriteFile did not write
C6_Witness ==
    /\ written.msg.kind = "image"
    /\ ~written.ok
    /\ written.msg.idx = 2
    /\ previous = 1
    /\ myrtille.imageIdx = 2

\* C7 as the specification states it: the image written after the one that
\* carried INT_MAX carries index 0.
C7_Original ==
    (written.msg.kind = "image" /\ written.ok /\ previous = INT_MAX) =>
        written.msg.idx = 0

\* C7: the image written after the one that carried INT_MAX carries index 1:
\* imageIdx is reset to 0 and incremented before it is written.
C7_WrapsToOne ==
    (written.msg.kind = "image" /\ written.ok /\ previous = INT_MAX) =>
        (written.msg.idx = 1 /\ myrtille.imageIdx = 1)

\* the image after the one that carried INT_MAX, written
C7_Witness ==
    /\ written.msg.kind = "image" /\ written.ok
    /\ previous = INT_MAX
    /\ written.msg.idx = 1

(***************************************************************************)
(* The selection of the candidate (SpecEncoding).                          *)
(***************************************************************************)
\* the last step ran processImage on the screen under IMAGE_ENCODING::AUTO
AutoEncoded ==
    /\ call.op \in {"FSU", "SCN"}
    /\ myrtille.imageEncoding = IMAGE_ENCODING_AUTO

\* C9: under AUTO, when both encodings returned bytes, the image written is
\* the PNG one if pngSize <= jpgSize and the JPEG one otherwise: its size is
\* the smaller of the two and a tie goes to PNG.
C9_AutoSelectsSmaller ==
    (AutoEncoded /\ call.png > 0 /\ call.jpg > 0) =>
        /\ written.msg.kind = "image"
        /\ written.msg.format = IF call.png <= call.jpg THEN IMAGE_FORMAT_PNG
                                ELSE IMAGE_FORMAT_JPEG
        /\ written.msg.size = Min(call.png, call.jpg)

\* both encodings returned as many bytes, and the PNG one was written
C9_Witness ==
    /\ AutoEncoded
    /\ call.png = MaxSize /\ call.jpg = MaxSize
    /\ written.msg.kind = "image"
    /\ written.msg.format = IMAGE_FORMAT_PNG
    /\ written.msg.size = MaxSize

\* C10: under AUTO, when one encoding failed or returned no byte and the other
\* returned some, the image of the other one is written.
C10_EmptyNeverSelected ==
    (AutoEncoded /\ (call.png = 0) # (call.jpg = 0)) =>
        /\ written.msg.kind = "image"
        /\ written.msg.format = IF call.png > 0 THEN IMAGE_FORMAT_PNG
                                ELSE IMAGE_FORMAT_JPEG
        /\ written.msg.size = Max(call.png, call.jpg)

(***************************************************************************)
(* The reader and the tags (SpecReader).                                   *)
(***************************************************************************)
\* the payload the reader is about to take, when it holds a tag
NextPayload == SubSeq(inputsPipe.data, 1, reader.bytesToRead)

\* a step in which the reader takes a payload whose tag is not registered
UnknownTagRead ==
    /\ process = "running"
    /\ ~reader.sizeHeader
    /\ inputsPipe'.data # inputsPipe.data
    /\ Len(NextPayload) >= 3
    /\ SubSeq(NextPayload, 1, 3) \notin DOMAIN commandMap

\* C1: on a payload whose first three bytes are not a registered tag, the
\* reader switches on no command, changes no setting of the session or of the
\* connection, writes nothing and goes back to awaiting a length header.
C1_UnknownTagIgnored ==
    [][ UnknownTagRead =>
            /\ dispatch'.command = -1
            /\ settings' = settings
            /\ myrtille' = myrtille
            /\ written' = NoWrite
            /\ process' = "running"
            /\ reader'.sizeHeader ]_vars

(***************************************************************************)
(* The counters under two threads (SpecThreads).                           *)
(***************************************************************************)
\* C8: whatever the interleaving of the reader thread and the display thread,
\* imageIdx and imageCount are never negative.
C8_NeverNegative ==
    /\ myrtille.imageIdx >= 0
    /\ myrtille.imageCount >= 0

(***************************************************************************)
(* The quality an image reports (SpecEncoding).                            *)
(***************************************************************************)
\* C11: every image message whose format is PNG reports quality 100
\* (HIGHEST), in PNG mode and in AUTO mode, whatever imageQuality is and
\* whatever the fullscreen and adaptive flags are.
C11_PngReportsHighest ==
    (written.msg.kind = "image" /\ written.msg.format = IMAGE_FORMAT_PNG) =>
        written.msg.quality = IMAGE_QUALITY_HIGHEST

\* an adaptive fullscreen update under AUTO with the client's quality at LOW,
\* sent as PNG
C11_Witness ==
    /\ call.op = "FSU" /\ call.adaptive
    /\ myrtille.imageEncoding = IMAGE_ENCODING_AUTO
    /\ myrtille.imageQuality = IMAGE_QUALITY_LOW
    /\ written.msg.kind = "image"
    /\ written.msg.format = IMAGE_FORMAT_PNG
    /\ written.msg.quality = IMAGE_QUALITY_HIGHEST

\* C13: a fullscreen update requested in adaptive mode and sent in a lossy
\* format (JPEG or WEBP) reports a quality strictly higher than imageQuality,
\* the quality a non-adaptive update uses at the same client-set quality.
C13_AdaptiveStrictlyHigher ==
    ( /\ call.op = "FSU" /\ call.adaptive
      /\ written.msg.kind = "image"
      /\ written.msg.format \in {IMAGE_FORMAT_JPEG, IMAGE_FORMAT_WEBP} ) =>
        written.msg.quality > myrtille.imageQuality

(***************************************************************************)
(* The configuration commands (SpecConfig).                                *)
(***************************************************************************)
\* the number a string of decimal digits denotes
RECURSIVE Decimal(_)
Decimal(digits) ==
    IF digits = <<>> THEN 0
    ELSE 10 * Decimal(SubSeq(digits, 1, Len(digits) - 1))
         + (digits[Len(digits)] - 48)

\* the reader has taken a payload in this step and goes on
PayloadRead == ~reader.sizeHeader /\ reader'.sizeHeader /\ process' = "running"

\* C12: SET_IMAGE_ENCODING stores its argument as the encoding and sets the
\* quality to HIGH (50) whatever it was; SET_IMAGE_QUALITY and
\* SET_IMAGE_QUANTITY store the number their argument denotes; each leaves
\* every other field of the session and the connection settings as they are.
C12_ConfigCommands ==
    [][ PayloadRead =>
          LET arg == Decimal(SubSeq(dispatch'.message, 4, Len(dispatch'.message)))
          IN  /\ settings' = settings
              /\ dispatch'.command = COMMAND_SET_IMAGE_ENCODING =>
                    myrtille' = [myrtille EXCEPT !.imageEncoding = arg,
                                                 !.imageQuality = IMAGE_QUALITY_HIGH]
              /\ dispatch'.command = COMMAND_SET_IMAGE_QUALITY =>
                    myrtille' = [myrtille EXCEPT !.imageQuality = arg]
              /\ dispatch'.command = COMMAND_SET_IMAGE_QUANTITY =>
                    myrtille' = [myrtille EXCEPT !.imageQuantity = arg] ]_vars

\* an encoding command read after the gateway had set another quantity: the
\* quality is HIGH again and the quantity is kept
C12_Witness ==
    /\ dispatch.command = COMMAND_SET_IMAGE_ENCODING
    /\ reader.sizeHeader
    /\ myrtille.imageEncoding = IMAGE_ENCODING_JPEG
    /\ myrtille.imageQuality = IMAGE_QUALITY_HIGH
    /\ myrtille.imageQuantity = 25

(***************************************************************************)
(* The framing of the inputs pipe and the end of the reader (SpecStream).  *)
(***************************************************************************)
\* a step of the reader thread: a ReadFile and what follows it, or the exit
ReaderStep == call'.op \notin {"gateway", "engine"}

\* the reader awaits a payload of bytesToRead >= 0 bytes, the pipe holds
\* them all and the read does not fail
PayloadAwaited ==
    /\ process = "running" /\ myrtille.processInputs
    /\ ~reader.sizeHeader
    /\ reader.bytesToRead >= 0
    /\ Len(inputsPipe.data) >= reader.bytesToRead
    /\ inputsPipe.data # <<>>

\* C14: for every length N >= 0 decoded from a header, the reader's next
\* read takes exactly N bytes from the pipe as the message of one command and
\* the reader is back to awaiting a length header.
C14_FramedPayload ==
    [][ (PayloadAwaited /\ ReaderStep) =>
            /\ dispatch'.message = SubSeq(inputsPipe.data, 1, reader.bytesToRead)
            /\ inputsPipe'.data = SubSeq(inputsPipe.data, reader.bytesToRead + 1,
                                         Len(inputsPipe.data))
            /\ reader'.sizeHeader
            /\ process' = "running" ]_vars

\* the read on the inputs pipe fails, or has failed: the gateway closed the
\* pipe, nothing is left in it and the reader has a buffer to read into
ReadFailed ==
    /\ process = "running"
    /\ inputsPipe.state = "broken" /\ inputsPipe.data = <<>>
    /\ reader.sizeHeader \/ reader.bytesToRead >= 0

\* C15: the step in which a read fails dispatches no command and ends the
\* loop; the reader's next step closes the three pipes and exits the process
\* with the error code the engine recorded last.
C15_ReadFailureExits ==
    [][ (ReadFailed /\ ReaderStep) =>
            /\ dispatch' = dispatch
            /\ reader' = reader
            /\ ~myrtille'.processInputs
            /\ ~myrtille.processInputs =>
                  /\ process' = "exited"
                  /\ inputsPipe'.state = "closed"
                  /\ updatesPipe' = "closed"
                  /\ audioPipe' = "closed"
                  /\ exitCode' = LastError ]_vars

\* the process has exited on a failed read, no command was ever dispatched,
\* with the error the engine recorded
C15_Witness ==
    /\ process = "exited"
    /\ dispatch = NoDispatch
    /\ inputsPipe.state = "closed" /\ updatesPipe = "closed" /\ audioPipe = "closed"
    /\ LastError = MaxError
    /\ exitCode = MaxError

\* a read that returns fewer bytes than asked for, and more than none
ShortRead ==
    /\ process = "running" /\ myrtille.processInputs
    /\ Len(inputsPipe.data) > 0
    /\ Len(inputsPipe.data) < (IF reader.sizeHeader THEN 4 ELSE reader.bytesToRead)

\* C16: a read that returns fewer bytes than asked for ends the loop like a
\* failed read: its bytes are not decoded as a length and not dispatched.
C16_ShortReadFatal ==
    [][ (ShortRead /\ ReaderStep) =>
            /\ ~myrtille'.processInputs
            /\ reader' = reader
            /\ dispatch' = dispatch ]_vars

\* C17: once CLOSE_CLIENT is dispatched, the reader reads nothing more from
\* the inputs pipe and dispatches nothing more, whatever the pipe holds; its
\* next step closes the pipes and exits the process.
C17_CloseHalts ==
    [][ (process = "running" /\ dispatch.command = COMMAND_CLOSE_CLIENT) =>
            /\ dispatch' = dispatch
            /\ reader' = reader
            /\ ReaderStep =>
                  /\ inputsPipe'.data = inputsPipe.data
                  /\ process' = "exited"
                  /\ inputsPipe'.state = "closed"
                  /\ updatesPipe' = "closed"
                  /\ audioPipe' = "closed" ]_vars

\* the process has exited on CLOSE_CLIENT with a message left in the pipe
C17_Witness ==
    /\ process = "exited"
    /\ dispatch.command = COMMAND_CLOSE_CLIENT
    /\ inputsPipe.data = Framed(Bytes(<<"E", "C", "D", "3">>))

(***************************************************************************)
(* The image message as the gateway reads it: ten little-endian 32-bit     *)
(* fields, then the payload.                                               *)
(***************************************************************************)
HeaderField(k) == bytesToInt32(SubSeq(written.msg.header, 4 * k - 3, 4 * k))

ImageWritten == written.ok /\ written.msg.kind = "image"

\* C18: every image message written to the updates channel is 40 header
\* bytes followed by the payload; the first 32-bit field is the payload
\* length plus 36, the number of bytes that follow it; the tag is 0; the
\* position, width = right - left and height = bottom - top are those of
\* the forwarded region; the fullscreen field is 0 or 1.
C18_ImageLayout ==
    ImageWritten =>
        /\ Len(written.msg.header) = 40
        /\ written.msg.bytesToWrite = 40 + written.msg.size
        /\ HeaderField(1) = written.msg.size + 36
        /\ HeaderField(1) = written.msg.bytesToWrite - 4
        /\ HeaderField(2) = 0
        /\ HeaderField(3) = myrtille.imageIdx
        /\ HeaderField(10) \in {0, 1}
        /\ call.op = "region" =>
               /\ HeaderField(4) = captured.left
               /\ HeaderField(5) = captured.top
               /\ HeaderField(6) = captured.right - captured.left
               /\ HeaderField(7) = captured.bottom - captured.top
               /\ HeaderField(10) = 0
        /\ call.op = "screen" =>
               /\ HeaderField(6) = call.region.right - call.region.left
               /\ HeaderField(7) = call.region.bottom - call.region.top
               /\ HeaderField(10) = 1

C18_Witness ==
    /\ ImageWritten
    /\ call.op = "region"
    /\ written.msg.size > 0
    /\ HeaderField(6) > 0
    /\ HeaderField(3) > 255

(***************************************************************************)
(* The text message as the gateway reads it.                               *)
(***************************************************************************)
TextWritten == written.ok /\ written.msg.kind = "text"

\* the code units the bytes of a text message decode to
Utf16Units(bytes) ==
    [i \in 1..(Len(bytes) \div 2) |-> bytes[2 * i - 1] + 256 * bytes[2 * i]]

\* C19: every text message written to the updates channel is a 32-bit byte
\* length equal to twice the number of UTF-16 code units, followed by
\* exactly that many bytes; an empty text is never written; the four bytes
\* after the length are never all zero, so that a text message is never
\* read as an image (tag 0).
C19_TextLayout ==
    TextWritten =>
        /\ Len(written.msg.header) = 4
        /\ bytesToInt32(written.msg.header) = 2 * Len(written.msg.text)
        /\ Len(written.msg.data) = bytesToInt32(written.msg.header)
        /\ written.msg.bytesToWrite = 4 + Len(written.msg.data)
        /\ Utf16Units(written.msg.data) = written.msg.text
        /\ Len(written.msg.text) > 0
        /\ Len(written.msg.data) >= 4
        /\ bytesToInt32(SubSeq(written.msg.data, 1, 4)) # 0

C19_Witness ==
    /\ TextWritten
    /\ call.op = "clipboard"
    /\ \E i \in 1..Len(written.msg.text) : written.msg.text[i] > 255

C19_WitnessReload ==
    /\ TextWritten
    /\ call.op = "RCN"
    /\ written.msg.text = WideString(<<"r", "e", "l", "o", "a", "d">>)

(***************************************************************************)
(* The writes on each channel: images and texts on the updates pipe,       *)
(* audio on the audio pipe.                                                *)
(***************************************************************************)
UpdatesKinds == {"image", "text"}

UpdatesWritten == written.msg.kind \in UpdatesKinds /\ written.ok

AudioWritten == written.msg.kind = "audio" /\ written.ok

\* a write on the channel has failed: the function that wrote has logged it
UpdatesWriteFailed == log \cap {"sendImage", "sendMessage"} # {}

AudioWriteFailed == "sendAudio" \in log

\* C20: a failed write on the updates or the audio channel is fatal to the
\* producer side: after it, no step writes a further image, text or audio
\* message to that channel.
C20_WriteFailureFatal ==
    [][ /\ UpdatesWriteFailed => ~UpdatesWritten'
        /\ AudioWriteFailed => ~AudioWritten' ]_vars

(***************************************************************************)
(* A pipe is "closed" once this side has called CloseHandle on it, and     *)
(* "broken" once the gateway has closed its end.                           *)
(***************************************************************************)
\* C22: this side never closes any of the three channels: the inputs, the
\* updates and the audio channel are closed only by the remote peer.
C22_NeverClosesChannels ==
    /\ inputsPipe.state # "closed"
    /\ updatesPipe # "closed"
    /\ audioPipe # "closed"

(***************************************************************************)
(* A thread at "send" has entered sendImage and its WriteFile on the       *)
(* updates pipe has not returned.                                          *)
(***************************************************************************)
Writing(t) == thread[t].pc = "send"

\* C21: at any moment at most one thread is executing a write to the
\* updates channel: the writes of the display thread and those the reader
\* thread makes for a command never overlap.
C21_SingleWriter == ~(Writing("reader") /\ Writing("display"))

\* an index of the ordinary range, far from INT_MAX and from what follows it
OutsideWrap(idx) == 0 <= idx /\ idx < INT_MAX - NearMax

\* C28: image messages appear on the updates channel in increasing index
\* order: under any interleaving of the reader thread and the display
\* thread, outside the wrap, an image written carries a higher index than
\* the image written before it.
C28_IncreasingOrder ==
    [][ ( /\ written'.msg.kind = "image" /\ written'.ok
          /\ OutsideWrap(previous') /\ OutsideWrap(written'.msg.idx) )
            => written'.msg.idx > previous' ]_vars

\* C30: in every reachable state the region accumulator is either entirely
\* unset (its four bounds are -1) or a non-degenerate rectangle (left <
\* right and top < bottom) that lies within the desktop.
C30_AccumulatorValid ==
    \/ myrtille.imageBuffer = Unset
    \/ /\ 0 <= myrtille.imageBuffer.left
       /\ myrtille.imageBuffer.left < myrtille.imageBuffer.right
       /\ myrtille.imageBuffer.right <= DesktopWidth
       /\ 0 <= myrtille.imageBuffer.top
       /\ myrtille.imageBuffer.top < myrtille.imageBuffer.bottom
       /\ myrtille.imageBuffer.bottom <= DesktopHeight

(***************************************************************************)
(* The one-shot screenshot, with the reader thread and the display thread  *)
(* at work: TAKE_SCREENSHOT arms when the reader starts on the command and *)
(* sendImage captures when it is called.                                   *)
(***************************************************************************)
Armed == myrtille.screenshotEnabled

ImageHanded == written.msg.kind = "image"

Captures == ImageHanded /\ written.screenshot

\* C25: a TAKE_SCREENSHOT command arms exactly one capture.  The first
\* fullscreen image sent while armed captures and disarms; an image that is
\* not fullscreen (region, cursor) neither captures nor disarms; nothing but
\* a TAKE_SCREENSHOT command arms, so that no later fullscreen update
\* captures again without a new command.
C25_OneShotScreenshot ==
    [][ /\ (ImageHanded' /\ written'.msg.fullscreen = 1) =>
               /\ ~Armed'
               /\ Captures' <=> Armed
        /\ (ImageHanded' /\ written'.msg.fullscreen = 0) =>
               /\ ~Captures'
               /\ Armed' <=> Armed
        /\ ~ImageHanded' => (Armed' <=> (Armed \/ call'.op = "SCN"))
        /\ (Armed' /\ ~Armed) => call'.op = "SCN" ]_vars

C25_Witness ==
    /\ Captures
    /\ ~Armed
    /\ call.op = "SCN"
    /\ thread["display"].pc = "send"

(***************************************************************************)
(* The clipboard text served to the engine.                                *)
(***************************************************************************)
ClientClipboard == wf_myrtille_read_client_clipboard(myrtille)

\* C26: after any sequence of commands, wf_myrtille_read_client_clipboard
\* returns the text of the most recent SEND_LOCAL_CLIPBOARD command, the
\* empty text when there was none, with a size of (length + 1) * 2 bytes;
\* processing a clipboard command writes nothing to the updates channel.
C26_ClipboardCached ==
    [][ /\ call = NoCall => ClientClipboard = [text |-> <<>>, size |-> 2]
        /\ IF call'.op = "CLP"
           THEN /\ \E text \in ClipboardTexts :
                     /\ dispatch'.message = Bytes(<<"C", "L", "P">>) \o Utf8(text)
                     /\ ClientClipboard'.text = text
                     /\ ClientClipboard'.size = (Len(text) + 1) * 2
                /\ written' = NoWrite
           ELSE ClientClipboard' = ClientClipboard ]_vars

(***************************************************************************)
(* The aspect-locked resize (SpecResize).                                  *)
(***************************************************************************)
\* the reader has dispatched, in this step, a resize of w by h that keeps the
\* aspect ratio, with the scaling on
LockedResize(w, h) ==
    /\ call'.op \in {"SCA", "RSZ"}
    /\ myrtille'.scaleDisplay
    /\ substr(dispatch'.message, 3, Len(dispatch'.message)) = ResizeArgs(TRUE, w, h)
    /\ call'.op = "RSZ" => myrtille.scaleDisplay

\* clientWidth / clientHeight is the aspect ratio
SatisfiesRatio(m) ==
    m.clientHeight # 0 /\ m.clientWidth * m.aspectRatio.d = m.clientHeight * m.aspectRatio.n

\* C24 as the specification states it: when w / h is the fixed ratio the
\* client size becomes w by h; otherwise one requested dimension is kept and
\* the resulting clientWidth / clientHeight satisfies the ratio.
C24_Original ==
    [][ \A w \in Sizes1, h \in Sizes1 :
          LockedResize(w, h) =>
            IF w * myrtille.aspectRatio.d = h * myrtille.aspectRatio.n
            THEN myrtille'.clientWidth = w /\ myrtille'.clientHeight = h
            ELSE /\ myrtille'.clientWidth = w \/ myrtille'.clientHeight = h
                 /\ SatisfiesRatio(myrtille') ]_vars

\* C24: when w / h is the fixed ratio a the client size becomes w by h.
\* When w / h is above a the height is kept and the width is h * a without
\* its fraction; when it is below, the width is kept and the height is
\* w / a without its fraction.  The aspect ratio itself never changes.
C24_AspectLocked ==
    [][ \A w \in Sizes1, h \in Sizes1 :
          LockedResize(w, h) =>
            LET a == myrtille.aspectRatio
                cw == myrtille'.clientWidth
                ch == myrtille'.clientHeight
            IN  /\ myrtille'.aspectRatio = a
                /\ IF w * a.d = h * a.n THEN cw = w /\ ch = h
                   ELSE IF w * a.d > h * a.n
                   THEN /\ ch = h
                        /\ cw * a.d <= h * a.n
                        /\ h * a.n < (cw + 1) * a.d
                   ELSE /\ cw = w
                        /\ ch * a.n <= w * a.d
                        /\ w * a.d < (ch + 1) * a.n ]_vars

\* a resize whose derived dimension lost its fraction
C24_Witness ==
    /\ call.op = "SCA"
    /\ myrtille.scaleDisplay
    /\ myrtille.clientWidth = 2
    /\ myrtille.clientHeight = 1
    /\ myrtille.aspectRatio = [n |-> 4, d |-> 3]

(***************************************************************************)
(* The session start (SpecConnect).                                        *)
(***************************************************************************)
\* one of the three CreateFile calls has failed
ConnectFailed == "invalid" \in {inputsPipe.state, updatesPipe, audioPipe}

\* C23: when connecting one of the three pipes fails, wf_myrtille_connect
\* returns no thread handle: the reader thread is never started, it reads
\* nothing and no command is ever dispatched.
C23_ConnectFailureAborts ==
    ConnectFailed =>
        /\ process = "unconnected"
        /\ dispatch = NoDispatch
        /\ reader = [sizeHeader |-> TRUE, bytesToRead |-> 4]
        /\ myrtille = wf_myrtille_start

\* the inputs pipe was connected, a later one was not, and the gateway has
\* written a command that stays unread
C23_Witness ==
    /\ ConnectFailed
    /\ inputsPipe.state = "open"
    /\ inputsPipe.data # <<>>

(***************************************************************************)
(* The commands that come before the connect command (SpecConnect: the     *)
(* gateway of that specification never sends CON, so that every state of   *)
(* it is one where no connect command has been processed).                 *)
(***************************************************************************)
\* the reader has dispatched, in this step, a display command
DisplayCommandDispatched ==
    /\ call'.op \in {"SCA", "RSZ"}
    /\ dispatch'.command \in {COMMAND_SET_SCALE_DISPLAY, COMMAND_SEND_BROWSER_RESIZE}

\* C29: before a connect command has been processed, a command outside the
\* connection-setup subset is ignored: it changes no session state and
\* writes nothing to the updates pipe.
C29_IgnoredBeforeConnect ==
    [][ DisplayCommandDispatched =>
          /\ myrtille' = myrtille
          /\ written' = NoWrite ]_vars

(***************************************************************************)
(* The end of the session after a write fault (SpecFault).                 *)
(***************************************************************************)
\* a WriteFile on the updates or the audio pipe has failed
WriteFault == log # {} /\ ~myrtille.processInputs

\* C27: after a write fault on the updates or the audio pipe the reader loop
\* ends and the process exits with the last error of the engine, even when
\* the gateway sends nothing more on the inputs pipe.
C27_FaultExits == WriteFault ~> (process = "exited" /\ exitCode = LastError)

(***************************************************************************)
(* The reload signal of the resize commands (SpecResize).                  *)
(***************************************************************************)
\* the reader has dispatched, in this step, a browser resize or a scale toggle
ResizeDispatched ==
    /\ call'.op \in {"SCA", "RSZ"}
    /\ dispatch'.command \in {COMMAND_SET_SCALE_DISPLAY, COMMAND_SEND_BROWSER_RESIZE}

\* its argument string
ResizeArg == substr(dispatch'.message, 3, Len(dispatch'.message))

\* the step hands exactly the text reload to the updates pipe
Reloads == written'.msg = TextMessage(WideString(<<"r", "e", "l", "o", "a", "d">>))

\* the client size becomes the one of an argument that does not keep the ratio
Recomputed ==
    \A w \in Sizes1, h \in Sizes1 :
        ResizeArg = ResizeArgs(FALSE, w, h) =>
            myrtille'.clientWidth = w /\ myrtille'.clientHeight = h

SizeKept ==
    /\ myrtille'.clientWidth = myrtille.clientWidth
    /\ myrtille'.clientHeight = myrtille.clientHeight

\* C33 as the specification states it: every browser resize and every scale
\* toggle recomputes the client size from its argument and results in exactly
\* one reload message on the updates pipe.
C33_Original == [][ ResizeDispatched => Reloads /\ Recomputed ]_vars

\* C33: a scale toggle always hands one reload message to the updates pipe,
\* and recomputes the client size when it leaves the scaling on and carries a
\* size.  A browser resize does both while the scaling is on and is ignored
\* while it is off.  A size that is no number ends the process with no
\* reload.  Without a size, or with the scaling off, the client size stays.
C33_ReloadOnResize ==
    [][ ResizeDispatched =>
          IF call'.op = "RSZ" /\ ~myrtille.scaleDisplay
          THEN myrtille' = myrtille /\ written' = NoWrite
          ELSE IF process' = "crashed" THEN written' = NoWrite
          ELSE /\ Reloads
               /\ myrtille'.scaleDisplay => Recomputed
               /\ (~myrtille'.scaleDisplay \/ Find(ResizeArg, Ord("|"), 1) = 0)
                    => SizeKept ]_vars

\* a browser resize with the scaling on has set the size and sent reload
C33_Witness ==
    /\ call.op = "RSZ"
    /\ dispatch.message = Bytes(<<"R", "S", "Z">>) \o ResizeArgs(FALSE, 3, 2)
    /\ myrtille.clientWidth = 3
    /\ myrtille.clientHeight = 2
    /\ written.ok
    /\ written.msg.text = WideString(<<"r", "e", "l", "o", "a", "d">>)

\* a browser resize with the scaling off: nothing is sent
C33_WitnessIgnored ==
    /\ call.op = "RSZ"
    /\ ~myrtille.scaleDisplay
    /\ written = NoWrite
    /\ dispatch.message = Bytes(<<"R", "S", "Z">>) \o ResizeArgs(FALSE, 3, 2)

(***************************************************************************)
(* The settings changed while an image is encoded (SpecRace).              *)
(***************************************************************************)
\* the display thread ends, in this step, a processImage of a bitmap that
\* every codec encodes
ProcessImageEnds == thread["display"].pc = "emit" /\ thread'["display"].pc = "idle"

\* format, quality and size of the image that processImage makes of the
\* bitmap under the settings enc and q, when nothing changes them meanwhile
EncodedUnder(enc, q, codec) ==
    LET e == Encode([myrtille EXCEPT !.imageEncoding = enc, !.imageQuality = q],
                    FALSE, FALSE, codec)
    IN  <<e.format, e.quality, e.size>>

\* C31: an encoding or quality command processed while processImage is in
\* flight on the display thread never drops the update and never pairs a
\* codec with the quality of another mode: the call sends one image, encoded
\* as the settings on entry or the settings at the end would encode it.
C31_StaleOrNew ==
    [][ ProcessImageEnds =>
          LET e == thread["display"].e
          IN  /\ written'.msg.kind = "image"
              /\ <<written'.msg.format, written'.msg.quality, written'.msg.size>>
                   \in { EncodedUnder(e.enc0, e.q0, e.bmp),
                         EncodedUnder(myrtille.imageEncoding, myrtille.imageQuality,
                                      e.bmp) } ]_vars

(***************************************************************************)
(* processImage without an image (SpecIndex).                              *)
(***************************************************************************)
\* processImage has run in this step and every codec it called has failed or
\* returned no byte
NoCandidateEncoded ==
    /\ call'.op \in {"region", "screen"}
    /\ call'.visible
    /\ call'.png = 0 /\ call'.jpg = 0 /\ call'.webp = 0

\* C34 as the specification states it: when processImage produces no image
\* nothing is written to the updates pipe and imageIdx is left unchanged.
C34_Original ==
    [][ NoCandidateEncoded =>
          /\ written' = NoWrite
          /\ myrtille'.imageIdx = myrtille.imageIdx ]_vars

\* C34: when processImage produces no image nothing is handed to the updates
\* pipe and imageIdx is not incremented: it stays as it is, except that an
\* imageIdx of INT_MAX is put back to 0.
C34_NoImageNoIndex ==
    [][ NoCandidateEncoded =>
          /\ written' = NoWrite
          /\ myrtille'.imageIdx =
                IF myrtille.imageIdx = INT_MAX THEN 0 ELSE myrtille.imageIdx ]_vars

\* the index was put back to 0 by a processImage that sent nothing
C34_Witness ==
    /\ call.op \in {"region", "screen"}
    /\ call.visible
    /\ call.png = 0 /\ call.jpg = 0 /\ call.webp = 0
    /\ written = NoWrite
    /\ previous = INT_MAX
    /\ myrtille.imageIdx = 0

(***************************************************************************)
(* The cadence of the regulator where imageCount wraps (Spec).             *)
(***************************************************************************)
\* the event just forwarded ends a window that began before imageCount went
\* from INT_MAX back to 0: it holds more events than imageCount has counted
\* since
WrapWindow ==
    /\ call.op = "region"
    /\ window.fixed /\ window.fwd
    /\ RegulatorEngaged(myrtille.imageQuantity)
    /\ 0 < myrtille.imageCount
    /\ myrtille.imageCount < window.n

\* C35: with imageQuantity fixed in {5, 10, 20, 25, 50}, the window of region
\* events that contains the wrap of imageCount holds k = 100 / imageQuantity
\* events from one forward to the next, as every other window does.
C35_CadenceAtWrap == WrapWindow => window.n = SamplingPeriod

(***************************************************************************)
(* The divisor of the regulator (SpecSampling).                            *)
(***************************************************************************)
\* the display thread evaluates, in this step, imageCount % (100 / imageQuantity)
ModuloEvaluated == thread["display"].pc = "modulo" /\ call'.op = "region"

\* C36: the divisor 100 / imageQuantity is never zero when the modulo is
\* evaluated, whatever value SET_IMAGE_QUANTITY stores and however the store
\* of the reader thread falls within a region event of the display thread.
C36_DivisorNeverZero ==
    [][ ModuloEvaluated => ~DividesByZero(myrtille.imageQuantity) ]_vars

(***************************************************************************)
(* The accumulator across a change of imageQuantity (Spec).                *)
(***************************************************************************)
\* C37: regions accumulated while the regulator is engaged are not carried
\* across a period where it is not: whenever the regulator forwards, also
\* after imageQuantity went to 100 and back, the region forwarded is the
\* bounding union of the valid region events received since the previous
\* forwarded one.
C37_NoStaleRegions ==
    ( call.op = "region" /\ window.fwd /\ ~window.fixed
      /\ RegulatorEngaged(myrtille.imageQuantity) ) =>
        captured = window.rect

(***************************************************************************)
(* The client size as a divisor (SpecResize).                              *)
(***************************************************************************)
\* C38: after any sequence of resize and scale commands clientWidth and
\* clientHeight are strictly positive, so that processMouseInput, which
\* divides by them when the scaling is on, never divides by zero.
C38_ClientSizePositive ==
    myrtille.clientWidth > 0 /\ myrtille.clientHeight > 0

====
